---- MODULE Spec2Model ----
(***************************************************************************)
(* Model of the stackcast CLOB server: the Redis order store                *)
(* (OrderManagerRedis), the matching engine (MatchingEngine), the pricing   *)
(* helper (deriveYesNoPrices) and the block-height monitor (StacksMonitor). *)
(*                                                                          *)
(* Every handler is async: each `await` of a Redis, Postgres or settlement  *)
(* call is a suspension point, so every handler is a sequence of steps and  *)
(* the steps of different handlers interleave.  A Redis MULTI/EXEC block is *)
(* one step.  Order fields no handler branches on (maker, salt, signature,  *)
(* publicKey, conditionId, updatedAt) are left out of the records.          *)
(***************************************************************************)
EXTENDS Integers, Sequences, FiniteSets, TLC

\* ------------------------------------------------------------------ bounds
MaxOrders == 3
MaxSize == 2
MaxCalls == 2
MaxOps == 3
MaxLockExpiries == 1
MaxTicks == 2
MaxPolls == 2
MaxHeight == 2
MaxStops == 1
MaxErrors == 1
MaxPricingOps == 1
MaxPreviewOps == 4
\* Prices of the requests the scenarios are made of.
LowPrice == 600000
OddPrice == 600001
HighPrice == 700000
OverPrice == 1200000

\* --------------------------------------------------------------- constants
PRICE_SCALE == 1000000
MID_PRICE_SPREAD_THRESHOLD == 100000

MarketId == "m1"
Positions == {"YES", "NO"}
Sides == {"BUY", "SELL"}
OrderIds == 1..MaxOrders

OrderStatus == {"OPEN", "PARTIALLY_FILLED", "FILLED", "CANCELLED", "EXPIRED"}
TerminalStatus == {"FILLED", "CANCELLED", "EXPIRED"}

NoOrder == [status |-> "NONE"]
NoLock == <<"none", 0, "-", "-">>
NoCache == [hit |-> FALSE]

\* The one maker of the model, and an order that carries no signature.
MakerAddress == "SP1"
Unsigned == [signed |-> FALSE]
NoBody ==
  [side |-> "-", outcome |-> "-", orderType |-> "-", price |-> 0, size |-> 0,
   maxSlippage |-> 0, salt |-> "", expiration |-> 0, signature |-> Unsigned]

\* No getOrderbook call and no preview has returned yet.
NothingObserved ==
  [seen |-> FALSE, clean |-> FALSE, coherent |-> TRUE,
   last |-> [body |-> NoBody, plan |-> <<>>, store |-> <<>>]]

Exists(o) == o.status # "NONE"

Other(p) == IF p = "YES" THEN "NO" ELSE "YES"

\* ------------------------------------------------------------------- state
VARIABLES
  orderHash,     \* order:{id}  -> hash (the order record), NoOrder when absent
  book,          \* orderbook:{market}:{pos}:{side} -> members of the sorted set
  lock,          \* lock:order:{id} -> lock id of the holder, NoLock when absent
  cache,         \* orderbook:{market}:{pos}:cache -> cached snapshot
  mirror,        \* Postgres orders table: id -> last upserted row
  market,        \* market:{id} hash: yesPrice, noPrice, resolved
  calls,         \* in-flight handler invocations: call id -> frame
  nextOrderId,   \* next id generateOrderId hands out
  now,           \* Date.now()
  budget,        \* remaining environment events of the behaviour
  inputs,        \* the addOrder requests the environment may send
  obs,           \* what the last returned getOrderbook call observed
  running,       \* MatchingEngine.running
  matchInterval, \* MatchingEngine.matchInterval is set
  isMatching,    \* MatchingEngine.isMatching
  ticks,         \* invocations of the interval callback: tick -> frame
  walks,         \* matchMarket invocations: <<tick, positionId>> -> frame
  trades,        \* MatchingEngine.trades, in insertion order
  nextTick,      \* number of the next invocation of the interval callback
  currentBlockHeight, \* StacksMonitor.currentBlockHeight
  polls,         \* updateBlockHeight invocations: poll -> frame
  settlement,    \* StacksSettlementService.enabled, and the chain's mempool
  boot           \* index.ts bootstrap(): its position and what it fetched

storeVars == <<orderHash, book, lock, cache, mirror, market>>
engVars == <<running, matchInterval, isMatching, ticks, walks, trades,
             nextTick>>
monVars == <<currentBlockHeight, polls>>
sysVars == <<settlement, boot>>
envVars == <<nextOrderId, now, budget, inputs, sysVars, obs, engVars, monVars>>
vars == <<storeVars, calls, envVars>>

\* ---------------------------------------------------------------- call ids
ApiCalls == {<<"api", k, "-", "-">> : k \in 1..MaxCalls}
TickIds == 1..MaxTicks
WalkIds == TickIds \X Positions
\* The two fillOrder calls a walk awaits, and the expireOrder call of a poll.
EngineCalls == {<<"eng", t, p, s>> : t \in TickIds, p \in Positions, s \in Sides}
PollIds == 1..MaxPolls
MonitorCalls == {<<"mon", k, "-", "-">> : k \in PollIds}
CallIds == ApiCalls \cup EngineCalls \cup MonitorCalls

IsApi(c) == c[1] = "api"

Idle ==
  [op |-> "idle", pc |-> "idle", id |-> 0, n |-> 0, comp |-> 0, cur |-> 0,
   phase |-> "main", loc |-> NoOrder, res |-> FALSE, ires |-> FALSE,
   ret |-> FALSE, pos |-> "-", todo |-> <<>>, acc |-> {}, clean |-> FALSE,
   currentYesPrice |-> 0, yesPrice |-> 0, noPrice |-> 0,
   request |-> [tradeId |-> 0, tradeType |-> "NORMAL", fillAmount |-> 0,
                makerSigned |-> FALSE, takerSigned |-> FALSE],
   body |-> NoBody, levels |-> <<>>, takerAmount |-> 0]

\* A handler that returned: an API slot is free again; an engine-owned call
\* keeps its return value until the walk that awaits it collects it.
Finished(c, r) ==
  IF IsApi(c) THEN Idle ELSE [Idle EXCEPT !.pc = "done", !.ret = r]

\* POST /api/markets: both prices start at PRICE_SCALE / 2.
NewMarket ==
  [yesPrice |-> PRICE_SCALE \div 2, noPrice |-> PRICE_SCALE \div 2,
   resolved |-> FALSE]

\* ----------------------------------------------------------- store helpers
getBookPositionId(side, makerPositionId, takerPositionId) ==
  IF side = "BUY" THEN takerPositionId ELSE makerPositionId

buildOrderbookKey(marketId, positionId, side) == <<marketId, positionId, side>>

BookKeys == {buildOrderbookKey(MarketId, p, s) : p \in Positions, s \in Sides}

orderRestingInBook(status) == status \in {"OPEN", "PARTIALLY_FILLED"}

BookPosOf(o) == getBookPositionId(o.side, o.makerPositionId, o.takerPositionId)
BookKeyOf(o) == buildOrderbookKey(o.marketId, BookPosOf(o), o.side)

\* resolvePositionIds: BUY O gives the opposite token and receives O,
\* SELL O gives O and receives the opposite token.
resolvePositionIds(side, outcome) ==
  IF side = "BUY"
  THEN [makerPositionId |-> Other(outcome), takerPositionId |-> outcome]
  ELSE [makerPositionId |-> outcome, takerPositionId |-> Other(outcome)]

\* addOrder: the full order built from the request.
fullOrder(orderId, in, createdAt) ==
  [orderId |-> orderId, marketId |-> MarketId, maker |-> in.maker,
   salt |-> in.salt, signature |-> in.signature,
   makerPositionId |-> in.makerPositionId,
   takerPositionId |-> in.takerPositionId,
   side |-> in.side, price |-> in.price, size |-> in.size,
   filledSize |-> 0, remainingSize |-> in.size, status |-> "OPEN",
   expiration |-> in.expiration, createdAt |-> createdAt,
   complementaryOrderId |-> 0, isComplementary |-> FALSE]

\* writeOrderToRedis: hSet of every field, zAdd when resting, zRem otherwise.
writeOrderToRedis_hash(h, id, o) == [h EXCEPT ![id] = o]
\* writeOrderToRedis with the zAdd taken whatever the status is.
writeOrderToRedis_bookAlways(b, id, o) ==
  [b EXCEPT ![BookKeyOf(o)] = @ \cup {id}]

writeOrderToRedis_book(b, id, o) ==
  IF orderRestingInBook(o.status)
  THEN [b EXCEPT ![BookKeyOf(o)] = @ \cup {id}]
  ELSE [b EXCEPT ![BookKeyOf(o)] = @ \ {id}]

clearOrderbookCache(ch, positionId) == [ch EXCEPT ![positionId] = NoCache]

\* The three fields persistOrder's row is compared on, plus the rest.
persistOrder(m, id, o) == [m EXCEPT ![id] = o]

\* fillOrderInternal, lines 217-232: the guards and the new values.
FillRejected(order, fillSize) ==
  \/ ~Exists(order)
  \/ order.status \in {"FILLED", "CANCELLED", "EXPIRED"}
  \/ fillSize > order.remainingSize

NewRemainingSizeKept(order, fillSize) == order.remainingSize

NewRemainingSize(order, fillSize) == order.remainingSize - fillSize

NewFilledSize(order, fillSize) == order.filledSize + fillSize

NewStatus(newRemainingSize) ==
  IF newRemainingSize <= 0 THEN "FILLED" ELSE "PARTIALLY_FILLED"

FilledCopy(order, fillSize) ==
  [order EXCEPT !.filledSize = NewFilledSize(order, fillSize),
                !.remainingSize = NewRemainingSize(order, fillSize),
                !.status = NewStatus(NewRemainingSize(order, fillSize))]

\* ------------------------------------------------------------ environment
FreeApi == {c \in ApiCalls : calls[c].op = "idle"}

\* The lowest free slot: which slot a request lands in is not observable.
CanStart(c) ==
  /\ boot.pc = "serving"
  /\ budget.ops > 0
  /\ c \in FreeApi
  /\ \A d \in FreeApi : c[2] <= d[2]

SpendOp == budget' = [budget EXCEPT !.ops = @ - 1]

WriteOps == {"add", "fill", "cancel", "expire", "link"}

\* A getOrderbook or preview call in flight while a write handler starts is
\* no longer a call that ran with no write in progress.
Dirty(cs) ==
  [c \in CallIds |->
     IF cs[c].op \in {"book", "plan"} THEN [cs[c] EXCEPT !.clean = FALSE]
     ELSE cs[c]]

\* ---------------------------------------------------------------- addOrder
AddOrderCall(c) ==
  /\ CanStart(c)
  /\ nextOrderId <= MaxOrders
  /\ \E in \in inputs, t \in {now, now + 1} :
       /\ calls' = [Dirty(calls) EXCEPT ![c] =
                      [Idle EXCEPT !.op = "add", !.pc = "ao_write",
                                   !.id = nextOrderId, !.cur = nextOrderId,
                                   !.loc = fullOrder(nextOrderId, in, t)]]
       /\ now' = t
  /\ nextOrderId' = nextOrderId + 1
  /\ SpendOp
  /\ UNCHANGED <<storeVars, inputs, sysVars, obs, engVars, monVars>>

AddOrderWrite(c) ==
  /\ calls[c].pc = "ao_write"
  /\ orderHash' = writeOrderToRedis_hash(orderHash, calls[c].id, calls[c].loc)
  /\ book' = writeOrderToRedis_book(book, calls[c].id, calls[c].loc)
  /\ calls' = [calls EXCEPT ![c].pc = "ao_clear"]
  /\ UNCHANGED <<lock, cache, mirror, market, envVars>>

AddOrderClear(c) ==
  /\ calls[c].pc = "ao_clear"
  /\ cache' = clearOrderbookCache(cache, BookPosOf(calls[c].loc))
  /\ calls' = [calls EXCEPT ![c].pc = "ao_persist"]
  /\ UNCHANGED <<orderHash, book, lock, mirror, market, envVars>>

\* addOrder returns: to its caller, or to the smart-orders route, which goes
\* on to the next level of a MARKET plan.
AddReturn(c, cr) ==
  IF cr.op = "smart" /\ cr.levels # <<>>
  THEN [cr EXCEPT !.pc = "so_add"]
  ELSE Finished(c, TRUE)

AddOrderPersist(c) ==
  /\ calls[c].pc = "ao_persist"
  /\ mirror' = persistOrder(mirror, calls[c].id, calls[c].loc)
  /\ calls' = [calls EXCEPT ![c] = AddReturn(c, calls[c])]
  /\ UNCHANGED <<orderHash, book, lock, cache, market, envVars>>

\* --------------------------------------------------------------- fillOrder
\* After one fillOrderInternal returned r: fillOrder goes on to the
\* complementary order if the order read at the start names one, and returns
\* the result of the first.
AfterInternal(c, cr, r) ==
  IF cr.phase = "main" /\ cr.comp # 0
  THEN [cr EXCEPT !.res = r, !.phase = "comp", !.cur = cr.comp,
                  !.pc = "fi_lock", !.loc = NoOrder, !.ires = FALSE]
  ELSE Finished(c, IF cr.phase = "main" THEN r ELSE cr.res)

FillOrderCall(c) ==
  /\ CanStart(c)
  /\ \E id \in OrderIds, n \in 0..MaxSize :
       /\ Exists(orderHash[id])
       /\ calls' = [Dirty(calls) EXCEPT ![c] =
                      [Idle EXCEPT !.op = "fill", !.pc = "fo_getOrder",
                                   !.id = id, !.n = n, !.cur = id]]
  /\ SpendOp
  /\ UNCHANGED <<storeVars, nextOrderId, now, inputs, sysVars, obs, engVars,
                 monVars>>

\* fillOrder line 178, then fillOrderInternal line 195: with fillSize <= 0
\* both internal fills return false before touching the store.
FillGetOrder(c) ==
  /\ calls[c].pc = "fo_getOrder"
  /\ LET cr == calls[c]
         order == orderHash[cr.id]
     IN calls' = [calls EXCEPT ![c] =
          IF ~Exists(order) \/ cr.n <= 0
          THEN Finished(c, FALSE)
          ELSE [cr EXCEPT !.comp = order.complementaryOrderId,
                          !.pc = "fi_lock"]]
  /\ UNCHANGED <<storeVars, envVars>>

\* redis.set(lockKey, lockId, NX, PX 5000)
FillLock(c) ==
  /\ calls[c].pc = "fi_lock"
  /\ LET cr == calls[c]
     IN IF lock[cr.cur] = NoLock
        THEN /\ lock' = [lock EXCEPT ![cr.cur] = c]
             /\ calls' = [calls EXCEPT ![c].pc = "fi_read"]
        ELSE /\ lock' = lock
             /\ calls' = [calls EXCEPT ![c] = AfterInternal(c, cr, FALSE)]
  /\ UNCHANGED <<orderHash, book, cache, mirror, market, envVars>>

FillRead(c) ==
  /\ calls[c].pc = "fi_read"
  /\ LET cr == calls[c]
         order == orderHash[cr.cur]
     IN calls' = [calls EXCEPT ![c] =
          IF FillRejected(order, cr.n)
          THEN [cr EXCEPT !.ires = FALSE, !.pc = "fi_lockGet"]
          ELSE [cr EXCEPT !.loc = FilledCopy(order, cr.n), !.ires = TRUE,
                          !.pc = "fi_exec"]]
  /\ UNCHANGED <<storeVars, envVars>>

\* multi: hSet of filledSize, remainingSize, status; zRem when filled.
FillExec(c) ==
  /\ calls[c].pc = "fi_exec"
  /\ LET cr == calls[c]
     IN /\ orderHash' = [orderHash EXCEPT ![cr.cur] =
                           [@ EXCEPT !.filledSize = cr.loc.filledSize,
                                     !.remainingSize = cr.loc.remainingSize,
                                     !.status = cr.loc.status]]
        /\ book' = IF cr.loc.remainingSize <= 0
                   THEN [book EXCEPT ![BookKeyOf(cr.loc)] = @ \ {cr.cur}]
                   ELSE book
  /\ calls' = [calls EXCEPT ![c].pc = "fi_clear"]
  /\ UNCHANGED <<lock, cache, mirror, market, envVars>>

FillClear(c) ==
  /\ calls[c].pc = "fi_clear"
  /\ cache' = clearOrderbookCache(cache, BookPosOf(calls[c].loc))
  /\ calls' = [calls EXCEPT ![c].pc = "fi_persist"]
  /\ UNCHANGED <<orderHash, book, lock, mirror, market, envVars>>

FillPersist(c) ==
  /\ calls[c].pc = "fi_persist"
  /\ mirror' = persistOrder(mirror, calls[c].cur, calls[c].loc)
  /\ calls' = [calls EXCEPT ![c].pc = "fi_lockGet"]
  /\ UNCHANGED <<orderHash, book, lock, cache, market, envVars>>

\* finally: current = redis.get(lockKey)
FillLockGet(c) ==
  /\ calls[c].pc = "fi_lockGet"
  /\ LET cr == calls[c]
     IN calls' = [calls EXCEPT ![c] =
          IF lock[cr.cur] = c
          THEN [cr EXCEPT !.pc = "fi_lockDel"]
          ELSE AfterInternal(c, cr, cr.ires)]
  /\ UNCHANGED <<storeVars, envVars>>

\* finally: redis.del(lockKey), whoever holds it by now
FillLockDel(c) ==
  /\ calls[c].pc = "fi_lockDel"
  /\ LET cr == calls[c]
     IN /\ lock' = [lock EXCEPT ![cr.cur] = NoLock]
        /\ calls' = [calls EXCEPT ![c] = AfterInternal(c, cr, cr.ires)]
  /\ UNCHANGED <<orderHash, book, cache, mirror, market, envVars>>

\* The PX 5000 of the lock key runs out.
LockExpire ==
  /\ budget.expiries > 0
  /\ \E id \in OrderIds :
       /\ lock[id] # NoLock
       /\ lock' = [lock EXCEPT ![id] = NoLock]
  /\ budget' = [budget EXCEPT !.expiries = @ - 1]
  /\ UNCHANGED <<orderHash, book, cache, mirror, market, calls, nextOrderId,
                 now, inputs, sysVars, obs, engVars, monVars>>

\* ------------------------------------------------------------- cancelOrder
CancelOrderCall(c) ==
  /\ CanStart(c)
  /\ \E id \in OrderIds :
       /\ Exists(orderHash[id])
       /\ calls' = [Dirty(calls) EXCEPT ![c] =
                      [Idle EXCEPT !.op = "cancel", !.pc = "co_getOrder",
                                   !.id = id, !.cur = id]]
  /\ SpendOp
  /\ UNCHANGED <<storeVars, nextOrderId, now, inputs, sysVars, obs, engVars,
                 monVars>>

\* cancelOrder lines 285-293: FILLED and CANCELLED are rejected.
CancelRejected(order) ==
  \/ ~Exists(order)
  \/ order.status = "FILLED"
  \/ order.status = "CANCELLED"

CancelGetOrder(c) ==
  /\ calls[c].pc = "co_getOrder"
  /\ LET cr == calls[c]
         order == orderHash[cr.id]
     IN calls' = [calls EXCEPT ![c] =
          IF CancelRejected(order)
          THEN Finished(c, FALSE)
          ELSE [cr EXCEPT !.loc = order,
                          !.comp = IF order.isComplementary THEN 0
                                   ELSE order.complementaryOrderId,
                          !.pc = "ci_exec"]]
  /\ UNCHANGED <<storeVars, envVars>>

\* cancelOrderInternal multi: hSet status, zRem from the book of the copy.
CancelExec(c) ==
  /\ calls[c].pc = "ci_exec"
  /\ LET cr == calls[c]
     IN /\ orderHash' = [orderHash EXCEPT ![cr.cur] =
                           [@ EXCEPT !.status = "CANCELLED"]]
        /\ book' = [book EXCEPT ![BookKeyOf(cr.loc)] = @ \ {cr.cur}]
  /\ calls' = [calls EXCEPT ![c].pc = "ci_clear"]
  /\ UNCHANGED <<lock, cache, mirror, market, envVars>>

CancelClear(c) ==
  /\ calls[c].pc = "ci_clear"
  /\ cache' = clearOrderbookCache(cache, BookPosOf(calls[c].loc))
  /\ calls' = [calls EXCEPT ![c].pc = "ci_persist"]
  /\ UNCHANGED <<orderHash, book, lock, mirror, market, envVars>>

\* persistOrder of the copy read before the write, then the complementary
\* order of the original (lines 299-304).
CancelPersist(c) ==
  /\ calls[c].pc = "ci_persist"
  /\ LET cr == calls[c]
     IN /\ mirror' = persistOrder(mirror, cr.cur,
                                  [cr.loc EXCEPT !.status = "CANCELLED"])
        /\ calls' = [calls EXCEPT ![c] =
             IF cr.phase = "main" /\ cr.comp # 0
             THEN [cr EXCEPT !.pc = "co_getComp"]
             ELSE Finished(c, TRUE)]
  /\ UNCHANGED <<orderHash, book, lock, cache, market, envVars>>

CancelGetComp(c) ==
  /\ calls[c].pc = "co_getComp"
  /\ LET cr == calls[c]
         complementaryOrder == orderHash[cr.comp]
     IN calls' = [calls EXCEPT ![c] =
          IF Exists(complementaryOrder)
          THEN [cr EXCEPT !.loc = complementaryOrder, !.cur = cr.comp,
                          !.phase = "comp", !.pc = "ci_exec"]
          ELSE Finished(c, TRUE)]
  /\ UNCHANGED <<storeVars, envVars>>

\* ------------------------------------------------------------- expireOrder
\* An API slot or the monitor's slot.
ExpireFrame(id) ==
  [Idle EXCEPT !.op = "expire", !.pc = "eo_getOrder", !.id = id, !.cur = id]

ExpireOrderCall(c) ==
  /\ CanStart(c)
  /\ \E id \in OrderIds :
       /\ Exists(orderHash[id])
       /\ calls' = [Dirty(calls) EXCEPT ![c] = ExpireFrame(id)]
  /\ SpendOp
  /\ UNCHANGED <<storeVars, nextOrderId, now, inputs, sysVars, obs, engVars,
                 monVars>>

ExpireRejected(order) ==
  \/ ~Exists(order)
  \/ order.status \in {"FILLED", "CANCELLED", "EXPIRED"}

ExpireGetOrder(c) ==
  /\ calls[c].pc = "eo_getOrder"
  /\ LET cr == calls[c]
         order == orderHash[cr.id]
     IN calls' = [calls EXCEPT ![c] =
          IF ExpireRejected(order)
          THEN Finished(c, FALSE)
          ELSE [cr EXCEPT !.loc = order, !.pc = "eo_exec"]]
  /\ UNCHANGED <<storeVars, envVars>>

ExpireExec(c) ==
  /\ calls[c].pc = "eo_exec"
  /\ LET cr == calls[c]
     IN /\ orderHash' = [orderHash EXCEPT ![cr.cur] =
                           [@ EXCEPT !.status = "EXPIRED"]]
        /\ book' = [book EXCEPT ![BookKeyOf(cr.loc)] = @ \ {cr.cur}]
  /\ calls' = [calls EXCEPT ![c].pc = "eo_clear"]
  /\ UNCHANGED <<lock, cache, mirror, market, envVars>>

ExpireClear(c) ==
  /\ calls[c].pc = "eo_clear"
  /\ cache' = clearOrderbookCache(cache, BookPosOf(calls[c].loc))
  /\ calls' = [calls EXCEPT ![c].pc = "eo_persist"]
  /\ UNCHANGED <<orderHash, book, lock, mirror, market, envVars>>

ExpirePersist(c) ==
  /\ calls[c].pc = "eo_persist"
  /\ mirror' = persistOrder(mirror, calls[c].cur,
                            [calls[c].loc EXCEPT !.status = "EXPIRED"])
  /\ calls' = [calls EXCEPT ![c] = Finished(c, TRUE)]
  /\ UNCHANGED <<orderHash, book, lock, cache, market, envVars>>

\* ------------------------------------------------- linkComplementaryOrders
LinkCall(c) ==
  /\ CanStart(c)
  /\ \E id \in OrderIds, other \in OrderIds :
       /\ Exists(orderHash[id])
       /\ Exists(orderHash[other])
       /\ id # other
       /\ calls' = [Dirty(calls) EXCEPT ![c] =
                      [Idle EXCEPT !.op = "link", !.pc = "lk_getOrder",
                                   !.id = id, !.cur = id, !.comp = other]]
  /\ SpendOp
  /\ UNCHANGED <<storeVars, nextOrderId, now, inputs, sysVars, obs, engVars,
                 monVars>>

LinkGetOrder(c) ==
  /\ calls[c].pc = "lk_getOrder"
  /\ LET cr == calls[c]
         originalOrder == orderHash[cr.id]
     IN calls' = [calls EXCEPT ![c] =
          IF \/ ~Exists(originalOrder)
             \/ originalOrder.complementaryOrderId = cr.comp
          THEN Finished(c, TRUE)
          ELSE [cr EXCEPT !.loc = [originalOrder EXCEPT
                                     !.complementaryOrderId = cr.comp],
                          !.pc = "lk_write"]]
  /\ UNCHANGED <<storeVars, envVars>>

\* writeOrderToRedis of the copy read at the start
LinkWrite(c) ==
  /\ calls[c].pc = "lk_write"
  /\ orderHash' = writeOrderToRedis_hash(orderHash, calls[c].id, calls[c].loc)
  /\ book' = writeOrderToRedis_book(book, calls[c].id, calls[c].loc)
  /\ calls' = [calls EXCEPT ![c].pc = "lk_clear"]
  /\ UNCHANGED <<lock, cache, mirror, market, envVars>>

LinkClear(c) ==
  /\ calls[c].pc = "lk_clear"
  /\ cache' = clearOrderbookCache(cache, BookPosOf(calls[c].loc))
  /\ calls' = [calls EXCEPT ![c].pc = "lk_persist"]
  /\ UNCHANGED <<orderHash, book, lock, mirror, market, envVars>>

LinkPersist(c) ==
  /\ calls[c].pc = "lk_persist"
  /\ mirror' = persistOrder(mirror, calls[c].id, calls[c].loc)
  /\ calls' = [calls EXCEPT ![c] = Finished(c, TRUE)]
  /\ UNCHANGED <<orderHash, book, lock, cache, market, envVars>>

\* ----------------------------------------------------------------- pricing
Undefined == 0 - 1

Abs(x) == IF x < 0 THEN 0 - x ELSE x
Max(a, b) == IF a >= b THEN a ELSE b
Min(a, b) == IF a <= b THEN a ELSE b

\* Math.round of num / 2 for an integer num: halves go up.
RoundHalf(num) == (num + 1) \div 2

ClampUnchecked(x) == x

\* Math.max(0, Math.min(PRICE_SCALE, x))
Clamp(x) == Max(0, Min(PRICE_SCALE, x))

\* deriveYesNoPrices: the yes price before clamping.
RawYesPrice(bestBid, bestAsk, lastTradePrice, currentYesPrice) ==
  IF bestBid # Undefined /\ bestAsk # Undefined
  THEN IF Abs(bestAsk - bestBid) <= MID_PRICE_SPREAD_THRESHOLD
       THEN RoundHalf(bestBid + bestAsk)
       ELSE IF lastTradePrice # Undefined THEN lastTradePrice ELSE bestBid
  ELSE IF bestBid # Undefined THEN bestBid
  ELSE IF bestAsk # Undefined THEN bestAsk
  ELSE IF lastTradePrice # Undefined THEN lastTradePrice
  ELSE currentYesPrice

deriveYesNoPrices(bestBid, bestAsk, lastTradePrice, currentYesPrice) ==
  LET yesPrice ==
        Clamp(RawYesPrice(bestBid, bestAsk, lastTradePrice, currentYesPrice))
  IN [yesPrice |-> yesPrice, noPrice |-> Clamp(PRICE_SCALE - yesPrice)]

\* refreshMarketPrices lines 288-294: the last trade seen from the YES side.
effectiveLastTrade(positionId, lastTradePrice) ==
  IF lastTradePrice = Undefined THEN Undefined
  ELSE IF positionId = "YES" THEN lastTradePrice
  ELSE Max(0, PRICE_SCALE - lastTradePrice)

\* ------------------------------------------------------------ getOrderbook
\* Prices of a set of numbers as a sequence, ascending or descending.
RECURSIVE SortPrices(_, _)
SortPrices(S, descending) ==
  IF S = {} THEN <<>>
  ELSE LET x == IF descending
                THEN CHOOSE y \in S : \A z \in S : y >= z
                ELSE CHOOSE y \in S : \A z \in S : y <= z
       IN <<x>> \o SortPrices(S \ {x}, descending)

RECURSIVE SumRemaining(_)
SumRemaining(E) ==
  IF E = {} THEN 0
  ELSE LET e == CHOOSE x \in E : TRUE IN e[4] + SumRemaining(E \ {e})

\* aggregateOrderbook: entries <<isBid, orderId, score, remainingSize>> summed
\* per price level, bids high to low, asks low to high.
aggregateOrderbook(entries, isBid) ==
  LET mine == {e \in entries : e[1] = isBid}
      prices == SortPrices({e[3] : e \in mine}, isBid)
  IN [i \in 1..Len(prices) |->
        LET at == {e \in mine : e[3] = prices[i]}
        IN [price |-> prices[i], size |-> SumRemaining(at),
            orderCount |-> Cardinality(at)]]

Snapshot(entries) ==
  [hit |-> TRUE, bids |-> aggregateOrderbook(entries, TRUE),
   asks |-> aggregateOrderbook(entries, FALSE)]

\* The members of a sorted set in the order zRange returns them: by score,
\* then by member (REV reverses both).
RECURSIVE ZRange(_, _)
ZRange(members, rev) ==
  IF members = {} THEN <<>>
  ELSE LET first ==
             CHOOSE x \in members : \A y \in members :
               IF rev
               THEN \/ orderHash[x].price > orderHash[y].price
                    \/ orderHash[x].price = orderHash[y].price /\ x >= y
               ELSE \/ orderHash[x].price < orderHash[y].price
                    \/ orderHash[x].price = orderHash[y].price /\ x <= y
       IN <<first>> \o ZRange(members \ {first}, rev)

Tagged(ids, isBid) == [i \in 1..Len(ids) |-> <<isBid, ids[i]>>]

\* aggregateOrderbook lines 465-486: what one item of the raw range adds.
AggregateEntry(item, order, positionId) ==
  IF \/ ~Exists(order)
     \/ ~orderRestingInBook(order.status)
     \/ item[1] /\ order.takerPositionId # positionId
     \/ ~item[1] /\ order.makerPositionId # positionId
  THEN {}
  ELSE {<<item[1], item[2], order.price, order.remainingSize>>}

\* The snapshot of a book as the order records stand: the resting bids that
\* receive the position and the resting asks that give it.
RestingSnapshot(positionId) ==
  Snapshot(
    {<<TRUE, id, orderHash[id].price, orderHash[id].remainingSize>> :
       id \in {i \in OrderIds :
                 /\ Exists(orderHash[i])
                 /\ orderRestingInBook(orderHash[i].status)
                 /\ orderHash[i].side = "BUY"
                 /\ orderHash[i].takerPositionId = positionId}}
    \cup
    {<<FALSE, id, orderHash[id].price, orderHash[id].remainingSize>> :
       id \in {i \in OrderIds :
                 /\ Exists(orderHash[i])
                 /\ orderRestingInBook(orderHash[i].status)
                 /\ orderHash[i].side = "SELL"
                 /\ orderHash[i].makerPositionId = positionId}})

WriteInFlight == \E c \in CallIds : calls[c].op \in WriteOps

BookWritten(positionId) ==
  \E id \in OrderIds :
    Exists(orderHash[id]) /\ BookPosOf(orderHash[id]) = positionId

\* The call observed `result`; `clean` says it started after a write to the
\* book had returned and no write handler ran while it did.
Observed(cr, result) ==
  [obs EXCEPT !.seen = TRUE, !.clean = cr.clean,
              !.coherent = result = RestingSnapshot(cr.pos)]

\* getTrades(marketId, 1): the trades sorted by timestamp, newest first, by
\* a stable sort, cut to one.
LatestTrade ==
  trades[CHOOSE i \in 1..Len(trades) :
           /\ \A j \in 1..Len(trades) : trades[j].timestamp <= trades[i].timestamp
           /\ \A j \in 1..(i - 1) : trades[j].timestamp < trades[i].timestamp]

\* GET /:marketId/price, lines 102-126: the last trade price as the endpoint
\* sees it, and the prices it derives from the YES snapshot.
EndpointLastTrade ==
  IF Len(trades) = 0 THEN Undefined
  ELSE IF \/ LatestTrade.makerPositionId = "YES"
          \/ LatestTrade.takerPositionId = "YES"
       THEN LatestTrade.price
       ELSE Max(0, PRICE_SCALE - LatestTrade.price)

EndpointPrices(orderbook, currentYesPrice) ==
  deriveYesNoPrices(
    IF Len(orderbook.bids) > 0 THEN orderbook.bids[1].price ELSE Undefined,
    IF Len(orderbook.asks) > 0 THEN orderbook.asks[1].price ELSE Undefined,
    EndpointLastTrade, currentYesPrice)

\* --------------------------------------------------------- order signatures
MaxSalt == 9

\* /^\d+$/ on a salt, and BigInt(salt) of a salt that passes it.
IsNumericSalt(salt) == salt \in {ToString(n) : n \in 0..MaxSalt}
SaltValue(salt) == CHOOSE n \in 0..MaxSalt : ToString(n) = salt

HashThrew == [threw |-> TRUE]

\* computeOrderHash: SHA-256 of the serialised fields in the contract's
\* order, taken as the fields themselves; throws on a salt that is not a
\* string of digits.
computeOrderHash(maker, taker, makerPositionId, takerPositionId, makerAmount, takerAmount, salt, expiration) ==
  IF ~IsNumericSalt(salt) THEN HashThrew
  ELSE [maker |-> maker, taker |-> taker,
        makerPositionId |-> makerPositionId,
        takerPositionId |-> takerPositionId,
        makerAmount |-> makerAmount, takerAmount |-> takerAmount,
        salt |-> SaltValue(salt), expiration |-> expiration]

\* A signature is taken as the hash its signer signed: the maker's key
\* verifies it for that message and for no other.
verifyOrderSignature(hash, signature) == signature = hash

\* verifyOrderSignatureMiddleware: taker defaults to the maker; a throw of
\* computeOrderHash is caught and reported as invalid.
VerifiedHash(orderData) ==
  computeOrderHash(orderData.maker, orderData.maker,
                   orderData.makerPositionId, orderData.takerPositionId,
                   orderData.makerAmount, orderData.takerAmount,
                   orderData.salt, orderData.expiration)

verifyOrderSignatureMiddleware(orderData) ==
  /\ orderData.signature # Unsigned
  /\ VerifiedHash(orderData) # HashThrew
  /\ verifyOrderSignature(VerifiedHash(orderData), orderData.signature)

\* ------------------------------------------------------------ smart router
RECURSIVE TakeLevels(_, _)
TakeLevels(sortedLevels, remainingSize) ==
  IF sortedLevels = <<>> \/ remainingSize <= 0 THEN <<>>
  ELSE LET level == Head(sortedLevels)
           sizeFromLevel == Min(remainingSize, level.size)
       IN <<[price |-> level.price, size |-> sizeFromLevel]>>
            \o TakeLevels(Tail(sortedLevels), remainingSize - sizeFromLevel)

\* [...levels].sort by price, ascending for BUY and descending for SELL.
SortLevels(levels, side) ==
  LET prices == SortPrices({levels[i].price : i \in DOMAIN levels},
                           side = "SELL")
  IN [i \in 1..Len(prices) |->
        levels[CHOOSE j \in DOMAIN levels : levels[j].price = prices[i]]]

RECURSIVE SumCost(_)
SumCost(levels) ==
  IF levels = <<>> THEN 0
  ELSE Head(levels).size * Head(levels).price + SumCost(Tail(levels))

RECURSIVE SumSize(_)
SumSize(levels) ==
  IF levels = <<>> THEN 0 ELSE Head(levels).size + SumSize(Tail(levels))

\* The loop without its test on limitPrice.
WithinLimitIgnored(sortedLevels, request) == sortedLevels

\* The loop's test on limitPrice (lines 127-135): the levels before the first
\* one a LIMIT request may not take.
RECURSIVE WithinLimit(_, _)
WithinLimit(sortedLevels, request) ==
  IF sortedLevels = <<>> THEN <<>>
  ELSE LET level == Head(sortedLevels)
           beyond ==
             /\ request.orderType = "LIMIT"
             /\ request.limitPrice # Undefined
             /\ \/ request.side = "BUY" /\ level.price > request.limitPrice
                \/ request.side = "SELL" /\ level.price < request.limitPrice
       IN IF beyond THEN <<>>
          ELSE <<level>> \o WithinLimit(Tail(sortedLevels), request)

\* executionLevels.push (lines 145-150): cumulativeSize is the loop's counter
\* after the level, cost is sizeFromLevel * level.price.
RECURSIVE ExecutionLevels(_, _)
ExecutionLevels(taken, cumulativeSize) ==
  IF taken = <<>> THEN <<>>
  ELSE LET level == Head(taken)
       IN <<[price |-> level.price, size |-> level.size,
             cumulativeSize |-> cumulativeSize + level.size,
             cost |-> level.size * level.price]>>
            \o ExecutionLevels(Tail(taken), cumulativeSize + level.size)

createInfeasiblePlan(size) ==
  [orderType |-> "MARKET", totalSize |-> size, levels |-> <<>>,
   totalCost |-> 0, actualSize |-> 0, bestPrice |-> 0, feasible |-> FALSE]

\* planExecution on the snapshot getOrderbook returned, for a request of
\* side, orderType, size, limitPrice and maxSlippage.  averagePrice is
\* totalCost / actualSize and is 0 for actualSize 0; slippage is
\* |averagePrice - bestPrice| / bestPrice * 100, kept here as the test
\* slippage > maxSlippage on whole numbers.
planExecutionOf(orderbook, request) ==
  LET levels == IF request.side = "BUY" THEN orderbook.asks
                ELSE orderbook.bids
      sortedLevels == SortLevels(levels, request.side)
      bestPrice == sortedLevels[1].price
      taken == TakeLevels(WithinLimit(sortedLevels, request), request.size)
      totalCost == SumCost(taken)
      actualSize == SumSize(taken)
      slips == /\ bestPrice > 0
               /\ IF actualSize > 0
                  THEN Abs(totalCost - bestPrice * actualSize) * 100
                         > request.maxSlippage * bestPrice * actualSize
                  ELSE 100 > request.maxSlippage
  IN IF Len(levels) = 0 THEN createInfeasiblePlan(request.size)
     ELSE IF /\ request.orderType = "MARKET"
             /\ request.maxSlippage # Undefined
             /\ slips
     THEN createInfeasiblePlan(request.size)
     ELSE [orderType |-> request.orderType, totalSize |-> request.size,
           levels |-> ExecutionLevels(taken, 0), totalCost |-> totalCost,
           actualSize |-> actualSize, bestPrice |-> bestPrice,
           feasible |-> request.size - actualSize <= 0]

\* planExecution of a MARKET request: the fields of the plan the routes use.
planExecution(orderbook, side, size, maxSlippage) ==
  LET plan == planExecutionOf(orderbook,
                              [side |-> side, orderType |-> "MARKET",
                               size |-> size, limitPrice |-> Undefined,
                               maxSlippage |-> maxSlippage])
  IN [feasible |-> plan.feasible,
      levels |-> [i \in DOMAIN plan.levels |->
                    [price |-> plan.levels[i].price,
                     size |-> plan.levels[i].size]],
      totalCost |-> plan.totalCost, actualSize |-> plan.actualSize]

\* Math.floor(plan.averagePrice * numericSize)
estimatedTotalTakerAmount(plan, numericSize) ==
  (plan.totalCost * numericSize) \div plan.actualSize

\* --------------------------------------------------- POST /api/smart-orders
BodyPositions(body) == resolvePositionIds(body.side, body.outcome)

\* What the route hands to verifyOrderSignatureMiddleware.
OrderData(body, takerAmount) ==
  [maker |-> MakerAddress,
   makerPositionId |-> BodyPositions(body).makerPositionId,
   takerPositionId |-> BodyPositions(body).takerPositionId,
   makerAmount |-> body.size, takerAmount |-> takerAmount,
   salt |-> body.salt, expiration |-> body.expiration,
   signature |-> body.signature]

\* The LIMIT branch's addOrder argument.
LimitOrder(body) ==
  [side |-> body.side, price |-> body.price, size |-> body.size,
   expiration |-> body.expiration, maker |-> MakerAddress,
   salt |-> body.salt, signature |-> body.signature,
   makerPositionId |-> BodyPositions(body).makerPositionId,
   takerPositionId |-> BodyPositions(body).takerPositionId]

\* `${salt || Date.now()}_level_${level.price}`
levelSalt(salt, dateNow, price) ==
  (IF salt = "" THEN ToString(dateNow) ELSE salt)
    \o "_level_" \o ToString(price)

\* expiration || 999999999
levelExpiration(expiration) ==
  IF expiration = 0 THEN 999999999 ELSE expiration

\* The MARKET branch's addOrder argument for one level of the plan.
LevelOrder(body, level, dateNow) ==
  [side |-> body.side, price |-> level.price, size |-> level.size,
   expiration |-> levelExpiration(body.expiration), maker |-> MakerAddress,
   salt |-> levelSalt(body.salt, dateNow, level.price),
   signature |-> body.signature,
   makerPositionId |-> BodyPositions(body).makerPositionId,
   takerPositionId |-> BodyPositions(body).takerPositionId]

\* Lines 434-447: what the LIMIT branch refuses a price for (prices of the
\* model are integers).
LimitPriceRejected(numericPrice) == numericPrice < 0

\* The default taken whatever the request says.
maxSlippageIgnored(body) == 5

\* maxSlippage || 5
maxSlippageOf(body) == IF body.maxSlippage = 0 THEN 5 ELSE body.maxSlippage

\* The MARKET branch once the plan is there: 400 without a feasible plan or
\* without a signature, the verification otherwise.
AfterPlan(c, cr, plan) ==
  IF ~plan.feasible \/ cr.body.signature = Unsigned
  THEN Finished(c, FALSE)
  ELSE [cr EXCEPT !.pc = "so_verify", !.levels = plan.levels,
                  !.takerAmount = estimatedTotalTakerAmount(plan, cr.body.size),
                  !.todo = <<>>, !.acc = {}]

\* getOrderbook returns `result`: to the API caller, to the price endpoint,
\* which goes on to updateMarketPrices, or to planExecution.
BookReturn(c, cr, result) ==
  IF cr.op = "smart"
  THEN AfterPlan(c, cr, planExecution(result, cr.body.side, cr.body.size,
                                      maxSlippageOf(cr.body)))
  ELSE IF cr.op = "price"
  THEN [cr EXCEPT !.pc = "pr_exists",
                  !.yesPrice = EndpointPrices(result, cr.currentYesPrice).yesPrice,
                  !.noPrice = EndpointPrices(result, cr.currentYesPrice).noPrice]
  ELSE Finished(c, TRUE)

\* The requests of the model: the validations of lines 266-309 pass but for
\* the size, which a request may have as 0.
SmartRejected(body) == body.size <= 0

\* POST /api/smart-orders/preview answers with the plan. The answer of a
\* call that ran with no write handler in flight is kept, with the order
\* records, books and market it was given on.
PlanObserved(cr, result) ==
  IF cr.clean
  THEN [obs EXCEPT !.last =
          [body |-> cr.body,
           plan |-> planExecution(result, cr.body.side, cr.body.size,
                                  maxSlippageOf(cr.body)),
           store |-> <<orderHash, book, market>>]]
  ELSE obs

BookObserved(cr, result) ==
  IF cr.op = "book" THEN Observed(cr, result)
  ELSE IF cr.op = "plan" THEN PlanObserved(cr, result)
  ELSE obs

\* POST /api/smart-orders/preview of a MARKET request, up to planExecution's
\* getMarket.
PreviewCall(c) ==
  /\ CanStart(c)
  /\ \E body \in inputs :
       calls' = [calls EXCEPT ![c] =
                   IF SmartRejected(body) THEN Finished(c, FALSE)
                   ELSE [Idle EXCEPT !.op = "plan", !.pc = "so_plan",
                                     !.body = body, !.pos = body.outcome,
                                     !.clean = ~WriteInFlight]]
  /\ SpendOp
  /\ UNCHANGED <<storeVars, nextOrderId, now, inputs, sysVars, obs, engVars,
                 monVars>>

GetOrderbookCall(c) ==
  /\ CanStart(c)
  /\ \E positionId \in Positions :
       calls' = [calls EXCEPT ![c] =
                   [Idle EXCEPT !.op = "book", !.pc = "gb_cache",
                                !.pos = positionId,
                                !.clean = /\ ~WriteInFlight
                                          /\ BookWritten(positionId)]]
  /\ SpendOp
  /\ UNCHANGED <<storeVars, nextOrderId, now, inputs, sysVars, obs, engVars,
                 monVars>>

GetOrderbookCache(c) ==
  /\ calls[c].pc = "gb_cache"
  /\ LET cr == calls[c]
         cached == cache[cr.pos]
     IN IF cached.hit
        THEN /\ calls' = [calls EXCEPT ![c] = BookReturn(c, cr, cached)]
             /\ obs' = BookObserved(cr, cached)
        ELSE /\ calls' = [calls EXCEPT ![c].pc = "gb_range"]
             /\ obs' = obs
  /\ UNCHANGED <<storeVars, nextOrderId, now, budget, inputs, sysVars, engVars,
                 monVars>>

\* Promise.all of both zRangeWithScores, sent together.
GetOrderbookRange(c) ==
  /\ calls[c].pc = "gb_range"
  /\ LET cr == calls[c]
         buyKey == buildOrderbookKey(MarketId, cr.pos, "BUY")
         sellKey == buildOrderbookKey(MarketId, cr.pos, "SELL")
     IN calls' = [calls EXCEPT ![c] =
          [cr EXCEPT !.todo = Tagged(ZRange(book[buyKey], TRUE), TRUE)
                                \o Tagged(ZRange(book[sellKey], FALSE), FALSE),
                     !.pc = "gb_agg"]]
  /\ UNCHANGED <<storeVars, envVars>>

\* One getOrder of the aggregation loop.
GetOrderbookAggregate(c) ==
  /\ calls[c].pc = "gb_agg"
  /\ calls[c].todo # <<>>
  /\ LET cr == calls[c]
         item == Head(cr.todo)
     IN calls' = [calls EXCEPT ![c] =
          [cr EXCEPT !.todo = Tail(@),
                     !.acc = @ \cup AggregateEntry(item, orderHash[item[2]],
                                                   cr.pos)]]
  /\ UNCHANGED <<storeVars, envVars>>

\* redis.setEx(cacheKey, 10, JSON.stringify(result)), then the return.
GetOrderbookSetEx(c) ==
  /\ calls[c].pc = "gb_agg"
  /\ calls[c].todo = <<>>
  /\ LET cr == calls[c]
     IN /\ cache' = [cache EXCEPT ![cr.pos] = Snapshot(cr.acc)]
        /\ obs' = BookObserved(cr, Snapshot(cr.acc))
        /\ calls' = [calls EXCEPT ![c] = BookReturn(c, cr, Snapshot(cr.acc))]
  /\ UNCHANGED <<orderHash, book, lock, mirror, market, nextOrderId, now,
                 budget, inputs, sysVars, engVars, monVars>>

\* The handler up to `await orderManager.getMarket(marketId)`.
SmartOrderCall(c) ==
  /\ CanStart(c)
  /\ \E body \in inputs :
       calls' = [calls EXCEPT ![c] =
                   IF SmartRejected(body) THEN Finished(c, FALSE)
                   ELSE [Idle EXCEPT !.op = "smart", !.pc = "so_market",
                                     !.body = body, !.pos = body.outcome]]
  /\ SpendOp
  /\ UNCHANGED <<storeVars, nextOrderId, now, inputs, sysVars, obs, engVars,
                 monVars>>

\* The market is there. MARKET: planExecution starts, up to its own
\* getMarket. LIMIT: the price checks, the answer to an unsigned request,
\* and the call of the verification.
SmartGetMarket(c) ==
  /\ calls[c].pc = "so_market"
  /\ LET cr == calls[c]
     IN calls' = [calls EXCEPT ![c] =
          IF cr.body.orderType = "MARKET"
          THEN [cr EXCEPT !.pc = "so_plan"]
          ELSE IF LimitPriceRejected(cr.body.price)
          THEN Finished(c, FALSE)
          ELSE IF cr.body.signature = Unsigned
          THEN Finished(c, TRUE)
          ELSE [cr EXCEPT !.pc = "so_verify",
                          !.takerAmount = cr.body.size * cr.body.price]]
  /\ UNCHANGED <<storeVars, envVars>>

\* planExecution has the market and calls getOrderbook for the outcome.
SmartPlanMarket(c) ==
  /\ calls[c].pc = "so_plan"
  /\ calls' = [calls EXCEPT ![c].pc = "gb_cache"]
  /\ UNCHANGED <<storeVars, envVars>>

\* The verification returned: 400 when invalid, the first addOrder otherwise.
SmartVerify(c) ==
  /\ calls[c].pc = "so_verify"
  /\ LET cr == calls[c]
     IN calls' = [calls EXCEPT ![c] =
          IF verifyOrderSignatureMiddleware(OrderData(cr.body, cr.takerAmount))
          THEN [cr EXCEPT !.pc = "so_add"]
          ELSE Finished(c, FALSE)]
  /\ UNCHANGED <<storeVars, envVars>>

\* addOrder of the LIMIT order, or of the next level of the plan, up to its
\* writeOrderToRedis.
SmartAdd(c) ==
  /\ calls[c].pc = "so_add"
  /\ nextOrderId <= MaxOrders
  /\ \E t \in {now, now + 1} :
       LET cr == calls[c]
           in == IF cr.body.orderType = "MARKET"
                 THEN LevelOrder(cr.body, Head(cr.levels), t)
                 ELSE LimitOrder(cr.body)
       IN /\ calls' = [Dirty(calls) EXCEPT ![c] =
                         [cr EXCEPT !.pc = "ao_write", !.id = nextOrderId,
                                    !.cur = nextOrderId,
                                    !.loc = fullOrder(nextOrderId, in, t),
                                    !.levels = IF cr.levels = <<>> THEN <<>>
                                               ELSE Tail(cr.levels)]]
          /\ now' = t
  /\ nextOrderId' = nextOrderId + 1
  /\ UNCHANGED <<storeVars, budget, inputs, sysVars, obs, engVars, monVars>>

\* The 10 s of a cached snapshot run out.
CacheExpire ==
  /\ budget.expiries > 0
  /\ \E positionId \in Positions :
       /\ cache[positionId].hit
       /\ cache' = clearOrderbookCache(cache, positionId)
  /\ budget' = [budget EXCEPT !.expiries = @ - 1]
  /\ UNCHANGED <<orderHash, book, lock, mirror, market, calls, nextOrderId,
                 now, inputs, sysVars, obs, engVars, monVars>>

\* ------------------------------------------------- GET /:marketId/price
PriceCall(c) ==
  /\ CanStart(c)
  /\ calls' = [calls EXCEPT ![c] =
                 [Idle EXCEPT !.op = "price", !.pc = "pr_market"]]
  /\ SpendOp
  /\ UNCHANGED <<storeVars, nextOrderId, now, inputs, sysVars, obs, engVars,
                 monVars>>

\* getMarket, then getOrderbook(marketId, market.yesPositionId) up to its
\* first await.
PriceGetMarket(c) ==
  /\ calls[c].pc = "pr_market"
  /\ calls' = [calls EXCEPT ![c].currentYesPrice = market.yesPrice,
                            ![c].pos = "YES", ![c].pc = "gb_cache"]
  /\ UNCHANGED <<storeVars, envVars>>

\* updateMarketPrices: exists, hSet, the persistence call.
PriceExists(c) ==
  /\ calls[c].pc = "pr_exists"
  /\ calls' = [calls EXCEPT ![c].pc = "pr_hset"]
  /\ UNCHANGED <<storeVars, envVars>>

PriceHSet(c) ==
  /\ calls[c].pc = "pr_hset"
  /\ market' = [market EXCEPT !.yesPrice = calls[c].yesPrice,
                              !.noPrice = calls[c].noPrice]
  /\ calls' = [calls EXCEPT ![c].pc = "pr_persist"]
  /\ UNCHANGED <<orderHash, book, lock, cache, mirror, envVars>>

PricePersist(c) ==
  /\ calls[c].pc = "pr_persist"
  /\ calls' = [calls EXCEPT ![c] = Finished(c, TRUE)]
  /\ UNCHANGED <<storeVars, envVars>>

\* ------------------------------------------------- StacksSettlementService
TradeTypes == {"NORMAL", "MINT", "MERGE"}

\* submitFill's switch and the functionName of the method it routes to: MINT
\* goes to submitFillNormal.
functionNameOf(tradeType) ==
  CASE tradeType = "MINT" -> "fill-order"
    [] tradeType = "MERGE" -> "fill-order-merge"
    [] OTHER -> "fill-order"

\* The throws before the first await: submitFillNormal needs the maker's
\* signature, submitFillMerge both.
SubmitFillRejects(request) ==
  IF request.tradeType = "MERGE"
  THEN ~request.makerSigned \/ ~request.takerSigned
  ELSE ~request.makerSigned

\* broadcastTransaction: the transaction reaches the node, which accepts it
\* (a txid comes back) or answers with an error (submitFill throws).
Broadcast(request, ok) ==
  [settlement EXCEPT !.broadcasts =
     Append(@, [tradeId |-> request.tradeId,
                tradeType |-> request.tradeType,
                functionName |-> functionNameOf(request.tradeType),
                fillAmount |-> request.fillAmount, ok |-> ok])]

\* The txid of the transaction broadcast by this step.
NewTxId == Len(settlement.broadcasts) + 1

\* recordTradeSettlement, and matchMarket lines 238-241.
recordTradeSettlement(ts, tradeId, txHash) ==
  IF tradeId \in 1..Len(ts) THEN [ts EXCEPT ![tradeId].txHash = txHash]
  ELSE ts

\* submitFill up to its first await, in the frame of its caller.
SubmitFillEntry(c, cr, request) ==
  IF ~settlement.enabled \/ SubmitFillRejects(request)
  THEN Finished(c, FALSE)
  ELSE [cr EXCEPT !.request = request, !.pc = "sf_make"]

\* Some caller hands submitFill a request.
SubmitRequests ==
  [tradeId : {1}, tradeType : TradeTypes, fillAmount : 1..MaxSize,
   makerSigned : BOOLEAN, takerSigned : BOOLEAN]

SubmitFillCall(c) ==
  /\ CanStart(c)
  /\ \E request \in SubmitRequests :
       calls' = [calls EXCEPT ![c] =
                   SubmitFillEntry(c, [Idle EXCEPT !.op = "submit"], request)]
  /\ SpendOp
  /\ UNCHANGED <<storeVars, nextOrderId, now, inputs, sysVars, obs, engVars,
                 monVars>>

\* makeContractCall returned; broadcastTransaction is sent.
SubmitMake(c) ==
  /\ calls[c].pc = "sf_make"
  /\ calls' = [calls EXCEPT ![c].pc = "sf_broadcast"]
  /\ UNCHANGED <<storeVars, envVars>>

\* The node answered.  The admin route records the txid on the trade.
SubmitBroadcast(c) ==
  /\ calls[c].pc = "sf_broadcast"
  /\ \E ok \in BOOLEAN :
       /\ settlement' = Broadcast(calls[c].request, ok)
       /\ trades' = IF ok /\ calls[c].op = "settle"
                    THEN recordTradeSettlement(trades, calls[c].request.tradeId,
                                               NewTxId)
                    ELSE trades
       /\ calls' = [calls EXCEPT ![c] = Finished(c, ok)]
  /\ UNCHANGED <<storeVars, nextOrderId, now, budget, inputs, boot, obs,
                 running, matchInterval, isMatching, ticks, walks, nextTick,
                 monVars>>

\* POST /api/admin/settlements/:tradeId up to its first await: 503 when the
\* service is not enabled, 404 when the engine holds no such trade.
AdminSettleCall(c) ==
  /\ CanStart(c)
  /\ \E tradeId \in 1..(Len(trades) + 1) :
       calls' = [calls EXCEPT ![c] =
         IF ~settlement.enabled \/ tradeId > Len(trades)
         THEN Finished(c, FALSE)
         ELSE [Idle EXCEPT !.op = "settle", !.pc = "ad_orders",
                           !.request.tradeId = tradeId,
                           !.request.tradeType = trades[tradeId].tradeType,
                           !.request.fillAmount = trades[tradeId].size]]
  /\ SpendOp
  /\ UNCHANGED <<storeVars, nextOrderId, now, inputs, sysVars, obs, engVars,
                 monVars>>

\* Both getOrder calls answered: 404 when one is missing, else submitFill.
\* A stored order carries the signature it was accepted with.
AdminOrders(c) ==
  /\ calls[c].pc = "ad_orders"
  /\ LET cr == calls[c]
         trade == trades[cr.request.tradeId]
     IN calls' = [calls EXCEPT ![c] =
          IF ~Exists(orderHash[trade.makerOrderId])
             \/ ~Exists(orderHash[trade.takerOrderId])
          THEN Finished(c, FALSE)
          ELSE SubmitFillEntry(c, cr, [cr.request EXCEPT
                                         !.makerSigned = TRUE,
                                         !.takerSigned = TRUE])]
  /\ UNCHANGED <<storeVars, envVars>>

\* ---------------------------------------------------------- matching engine
NoTick ==
  [pc |-> "idle", mkt |-> NewMarket, settled |-> FALSE, threw |-> FALSE]

NoWalk ==
  [pc |-> "idle", ids |-> {}, buys |-> <<>>, sells |-> <<>>, bi |-> 1,
   si |-> 1, last |-> Undefined, trade |-> 0, tradeId |-> 0, yes |-> 0,
   no |-> 0, loadedBuys |-> <<>>, loadedSells |-> <<>>, iterations |-> 0]

InFlight(t) == ticks[t].pc \in {"markets", "walking"}

EngineOff ==
  /\ running = FALSE
  /\ matchInterval = FALSE
  /\ isMatching = FALSE
  /\ ticks = [t \in TickIds |-> NoTick]
  /\ walks = [w \in WalkIds |-> NoWalk]
  /\ trades = <<>>
  /\ nextTick = 1

\* start(): running = true and the interval is set.
Start ==
  /\ ~running
  /\ running' = TRUE
  /\ matchInterval' = TRUE
  /\ UNCHANGED <<storeVars, calls, nextOrderId, now, budget, inputs, sysVars,
                 obs, isMatching, ticks, walks, trades, nextTick, monVars>>

\* stop(): the interval is cleared and isMatching is reset.
Stop ==
  /\ running
  /\ budget.stops > 0
  /\ running' = FALSE
  /\ matchInterval' = FALSE
  /\ isMatching' = FALSE
  /\ budget' = [budget EXCEPT !.stops = @ - 1]
  /\ UNCHANGED <<storeVars, calls, nextOrderId, now, inputs, sysVars, obs,
                 ticks, walks, trades, nextTick, monVars>>

\* The interval fires while isMatching: the callback returns at once.
TimerSkip ==
  /\ matchInterval
  /\ isMatching
  /\ UNCHANGED vars

\* The interval fires: isMatching = true, matchAllMarkets awaits getAllMarkets.
TimerFire ==
  /\ matchInterval
  /\ ~isMatching
  /\ nextTick <= MaxTicks
  /\ isMatching' = TRUE
  /\ ticks' = [ticks EXCEPT ![nextTick] = [NoTick EXCEPT !.pc = "markets"]]
  /\ nextTick' = nextTick + 1
  /\ UNCHANGED <<storeVars, calls, nextOrderId, now, budget, inputs, sysVars,
                 obs, running, matchInterval, walks, trades, monVars>>

\* Resting orders of the store that cross in some book of the market.
StoreCrossed ==
  \E b \in OrderIds, a \in OrderIds :
    /\ Exists(orderHash[b]) /\ Exists(orderHash[a])
    /\ orderRestingInBook(orderHash[b].status)
    /\ orderRestingInBook(orderHash[a].status)
    /\ orderHash[b].side = "BUY" /\ orderHash[a].side = "SELL"
    /\ orderHash[b].takerPositionId = orderHash[a].makerPositionId
    /\ orderHash[b].price >= orderHash[a].price

\* getAllMarkets, the filter on resolved, and both matchMarket calls up to
\* their first await.
TickMarkets(t) ==
  /\ ticks[t].pc = "markets"
  /\ IF market.resolved
     THEN /\ ticks' = [ticks EXCEPT ![t].pc = "done", ![t].settled = TRUE]
          /\ isMatching' = FALSE
          /\ walks' = walks
     ELSE /\ ticks' = [ticks EXCEPT ![t].pc = "walking", ![t].mkt = market]
          /\ walks' = [w \in WalkIds |->
                         IF w[1] = t THEN [NoWalk EXCEPT !.pc = "w_ids"]
                         ELSE walks[w]]
          /\ isMatching' = isMatching
  /\ UNCHANGED <<storeVars, calls, nextOrderId, now, budget, inputs, sysVars,
                 obs, running, matchInterval, trades, nextTick, monVars>>

\* The filter of matchMarket without its test on the position ids.
InBookOfAnyPosition(order, positionId) == orderRestingInBook(order.status)

\* matchMarket's filter: the resting orders of the book of positionId.
InBookOf(order, positionId) ==
  /\ orderRestingInBook(order.status)
  /\ \/ order.side = "BUY" /\ order.takerPositionId = positionId
     \/ order.side = "SELL" /\ order.makerPositionId = positionId

\* The sort comparators: high to low and FIFO, low to high and FIFO.
BuyCompare(a, b) ==
  IF b.price - a.price # 0 THEN b.price - a.price
  ELSE a.createdAt - b.createdAt

SellCompare(a, b) ==
  IF a.price - b.price # 0 THEN a.price - b.price
  ELSE a.createdAt - b.createdAt

\* The arrangements of a set of orders as an array.
Arrangements(S) ==
  {s \in [1..Cardinality(S) -> S] :
     \A i, j \in 1..Cardinality(S) : i # j => s[i] # s[j]}

\* Array.prototype.sort is stable and sMembers returns the ids in no
\* particular order: any arrangement the comparator does not contradict.
SortedBuys(S) ==
  {s \in Arrangements(S) :
     \A i, j \in 1..Len(s) : i < j => BuyCompare(s[i], s[j]) <= 0}

SortedSells(S) ==
  {s \in Arrangements(S) :
     \A i, j \in 1..Len(s) : i < j => SellCompare(s[i], s[j]) <= 0}

\* The negation of the loop's break test.
PricesCross(buyOrder, sellOrder) == ~(buyOrder.price < sellOrder.price)

matchPriceOf(buyOrder, sellOrder) == sellOrder.price

\* Lines 380-400: both orders BUY (or both SELL) for different outcomes at
\* prices that sum to 1_000_000 within less than 10_000.
detectComplementaryTrade(buyOrder, sellOrder) ==
  IF buyOrder.side = "BUY" /\ sellOrder.side = "BUY"
  THEN /\ buyOrder.takerPositionId # sellOrder.takerPositionId
       /\ Abs(buyOrder.price + sellOrder.price - 1000000) < 10000
  ELSE IF buyOrder.side = "SELL" /\ sellOrder.side = "SELL"
  THEN /\ buyOrder.makerPositionId # sellOrder.makerPositionId
       /\ Abs(buyOrder.price + sellOrder.price - 1000000) < 10000
  ELSE FALSE

\* Lines 183-193.
tradeTypeOf(buyOrder, sellOrder) ==
  IF detectComplementaryTrade(buyOrder, sellOrder)
  THEN IF buyOrder.side = "BUY" /\ sellOrder.side = "BUY" THEN "MINT"
       ELSE IF buyOrder.side = "SELL" /\ sellOrder.side = "SELL" THEN "MERGE"
       ELSE "NORMAL"
  ELSE "NORMAL"

\* The trade's id is its place in `trades`; txHash is absent until a
\* settlement is recorded.
createTrade(buyOrder, sellOrder, matchSize, timestamp) ==
  [price |-> matchPriceOf(buyOrder, sellOrder), size |-> matchSize,
   makerPositionId |-> sellOrder.makerPositionId,
   takerPositionId |-> sellOrder.takerPositionId,
   makerOrderId |-> sellOrder.orderId, takerOrderId |-> buyOrder.orderId,
   tradeType |-> tradeTypeOf(buyOrder, sellOrder), txHash |-> Undefined,
   timestamp |-> timestamp]

\* updateOrderState that leaves the local copy as it is.
updateOrderStateSkipped(order, matchSize) == order

updateOrderState(order, matchSize) ==
  [order EXCEPT
     !.remainingSize = Max(0, order.remainingSize - matchSize),
     !.filledSize = order.filledSize + matchSize,
     !.status = IF Max(0, order.remainingSize - matchSize) = 0
                THEN "FILLED" ELSE "PARTIALLY_FILLED"]

\* Lines 252-266: the price of the first order with remainingSize > 0.
FirstOpenPrice(orders) ==
  IF \E i \in 1..Len(orders) : orders[i].remainingSize > 0
  THEN orders[CHOOSE i \in 1..Len(orders) :
                /\ orders[i].remainingSize > 0
                /\ \A j \in 1..(i - 1) : orders[j].remainingSize <= 0].price
  ELSE Undefined

FillFrame(orderId, fillSize) ==
  [Idle EXCEPT !.op = "fill", !.pc = "fo_getOrder", !.id = orderId,
               !.n = fillSize, !.cur = orderId]

EngCall(w, side) == <<"eng", w[1], w[2], side>>

\* matchMarket from the head of its while loop to its next await: either the
\* two fillOrder calls of a new trade, or updateMarketPrices after the loop.
\* wf is the walk's frame, cs the call table and ts the trades as they stand
\* at the loop head; iterations counts the passes through the loop body.
LoopHeadFrom(w, wf, cs, ts) ==
  IF /\ wf.bi <= Len(wf.buys)
     /\ wf.si <= Len(wf.sells)
     /\ PricesCross(wf.buys[wf.bi], wf.sells[wf.si])
  THEN LET buyOrder == wf.buys[wf.bi]
           sellOrder == wf.sells[wf.si]
           matchSize == Min(buyOrder.remainingSize, sellOrder.remainingSize)
           trade == createTrade(buyOrder, sellOrder, matchSize, now)
       IN /\ trades' = Append(ts, trade)
          /\ walks' = [walks EXCEPT ![w] =
                         [wf EXCEPT !.pc = "w_fills", !.last = trade.price,
                                    !.trade = matchSize,
                                    !.tradeId = Len(ts) + 1,
                                    !.iterations = @ + 1]]
          /\ calls' = [Dirty(cs) EXCEPT
                         ![EngCall(w, "BUY")] =
                            FillFrame(buyOrder.orderId, matchSize),
                         ![EngCall(w, "SELL")] =
                            FillFrame(sellOrder.orderId, matchSize)]
  ELSE LET derived ==
             deriveYesNoPrices(FirstOpenPrice(wf.buys),
                               FirstOpenPrice(wf.sells),
                               effectiveLastTrade(w[2], wf.last),
                               ticks[w[1]].mkt.yesPrice)
       IN /\ trades' = ts
          /\ walks' = [walks EXCEPT ![w] =
                         [wf EXCEPT !.pc = "w_exists",
                                    !.yes = derived.yesPrice,
                                    !.no = derived.noPrice]]
          /\ calls' = cs

LoopHead(w, wf, cs) == LoopHeadFrom(w, wf, cs, trades)

\* getMarketOrders line 130: sMembers of market:{id}:orders, which addOrder
\* fills in the transaction that writes the hash.
WalkIdsRead(w) ==
  /\ walks[w].pc = "w_ids"
  /\ LET orderIds == {id \in OrderIds : Exists(orderHash[id])}
     IN IF orderIds = {}
        THEN LoopHead(w, walks[w], calls)
        ELSE /\ walks' = [walks EXCEPT ![w].pc = "w_load", ![w].ids = orderIds]
             /\ UNCHANGED <<calls, trades>>
  /\ UNCHANGED <<storeVars, nextOrderId, now, budget, inputs, sysVars, obs,
                 running, matchInterval, isMatching, ticks, nextTick, monVars>>

\* getMarketOrders line 136 (one batch of hGetAll), the filter, both sorts and
\* the loop up to its first await.  loadedBuys and loadedSells keep the orders
\* as they were loaded, beside the copies the loop updates.
WalkLoad(w) ==
  /\ walks[w].pc = "w_load"
  /\ LET orders == {orderHash[id] : id \in walks[w].ids}
         mine == {o \in orders : Exists(o) /\ InBookOf(o, w[2])}
     IN \E buyOrders \in SortedBuys({o \in mine : o.side = "BUY"}),
           sellOrders \in SortedSells({o \in mine : o.side = "SELL"}) :
          LoopHead(w, [walks[w] EXCEPT !.buys = buyOrders,
                                       !.sells = sellOrders,
                                       !.loadedBuys = buyOrders,
                                       !.loadedSells = sellOrders], calls)
  /\ UNCHANGED <<storeVars, nextOrderId, now, budget, inputs, sysVars, obs,
                 running, matchInterval, isMatching, ticks, nextTick, monVars>>

\* Lines 230-236: the request matchMarket hands to submitFill; the copies of
\* the orders it holds were stored with their signatures.
SettleRequest(wf) ==
  [tradeId |-> wf.tradeId, tradeType |-> trades[wf.tradeId].tradeType,
   fillAmount |-> wf.trade, makerSigned |-> TRUE, takerSigned |-> TRUE]

\* Both fillOrder calls returned; their results are dropped and the local
\* copies are updated.  With settlement enabled submitFill runs to its first
\* await; otherwise the pointers advance and the loop goes round.
WalkCollect(w) ==
  /\ walks[w].pc = "w_fills"
  /\ calls[EngCall(w, "BUY")].pc = "done"
  /\ calls[EngCall(w, "SELL")].pc = "done"
  /\ LET wf == walks[w]
         buyOrder == updateOrderState(wf.buys[wf.bi], wf.trade)
         sellOrder == updateOrderState(wf.sells[wf.si], wf.trade)
         after ==
           [wf EXCEPT !.buys[wf.bi] = buyOrder, !.sells[wf.si] = sellOrder,
                      !.bi = IF buyOrder.remainingSize <= 0 THEN @ + 1 ELSE @,
                      !.si = IF sellOrder.remainingSize <= 0 THEN @ + 1 ELSE @,
                      !.trade = 0]
         cs == [calls EXCEPT ![EngCall(w, "BUY")] = Idle,
                             ![EngCall(w, "SELL")] = Idle]
     IN IF settlement.enabled /\ ~SubmitFillRejects(SettleRequest(wf))
        THEN /\ walks' = [walks EXCEPT ![w] =
                            [after EXCEPT !.pc = "w_make", !.trade = wf.trade]]
             /\ calls' = cs
             /\ trades' = trades
        ELSE LoopHead(w, after, cs)
  /\ UNCHANGED <<storeVars, nextOrderId, now, budget, inputs, sysVars, obs,
                 running, matchInterval, isMatching, ticks, nextTick, monVars>>

\* makeContractCall returned; broadcastTransaction is sent.
WalkMake(w) ==
  /\ walks[w].pc = "w_make"
  /\ walks' = [walks EXCEPT ![w].pc = "w_broadcast"]
  /\ UNCHANGED <<storeVars, calls, nextOrderId, now, budget, inputs, sysVars,
                 obs, running, matchInterval, isMatching, ticks, trades,
                 nextTick, monVars>>

\* matchMarket without the try/catch of lines 229-245: a rejected broadcast
\* ends the while loop of the walk.
WalkBroadcastAborts(w) ==
  /\ walks[w].pc = "w_broadcast"
  /\ \E ok \in BOOLEAN :
       /\ settlement' = Broadcast(SettleRequest(walks[w]), ok)
       /\ LoopHeadFrom(w, [walks[w] EXCEPT
                             !.trade = 0,
                             !.bi = IF ok THEN @ ELSE Len(walks[w].buys) + 1],
                       calls,
                       IF ok
                       THEN recordTradeSettlement(trades, walks[w].tradeId,
                                                  NewTxId)
                       ELSE trades)
  /\ UNCHANGED <<storeVars, nextOrderId, now, budget, inputs, boot, obs,
                 running, matchInterval, isMatching, ticks, nextTick, monVars>>

\* The node answered: a txid is recorded on the trade, an error is logged;
\* then the pointers advance and the loop goes round.
WalkBroadcast(w) ==
  /\ walks[w].pc = "w_broadcast"
  /\ \E ok \in BOOLEAN :
       /\ settlement' = Broadcast(SettleRequest(walks[w]), ok)
       /\ LoopHeadFrom(w, [walks[w] EXCEPT !.trade = 0], calls,
                       IF ok
                       THEN recordTradeSettlement(trades, walks[w].tradeId,
                                                  NewTxId)
                       ELSE trades)
  /\ UNCHANGED <<storeVars, nextOrderId, now, budget, inputs, boot, obs,
                 running, matchInterval, isMatching, ticks, nextTick, monVars>>

\* updateMarketPrices line 595: redis.exists.
WalkExists(w) ==
  /\ walks[w].pc = "w_exists"
  /\ walks' = [walks EXCEPT ![w].pc = "w_hset"]
  /\ UNCHANGED <<storeVars, calls, nextOrderId, now, budget, inputs, sysVars,
                 obs, running, matchInterval, isMatching, ticks, trades,
                 nextTick, monVars>>

\* updateMarketPrices line 600: hSet of yesPrice and noPrice.
WalkHSet(w) ==
  /\ walks[w].pc = "w_hset"
  /\ market' = [market EXCEPT !.yesPrice = walks[w].yes,
                              !.noPrice = walks[w].no]
  /\ walks' = [walks EXCEPT ![w].pc = "w_persist"]
  /\ UNCHANGED <<orderHash, book, lock, cache, mirror, calls, nextOrderId, now,
                 budget, inputs, sysVars, obs, running, matchInterval,
                 isMatching, ticks, trades, nextTick, monVars>>

\* The tick of walk w after w returned or threw: Promise.all settles when
\* every walk returned or when the first one threw, and the callback's finally
\* runs once.
TickAfter(w, threw, marketObject) ==
  LET t == w[1]
      others == {walks[v].pc : v \in {u \in WalkIds : u[1] = t /\ u # w}}
      allDone == others \subseteq {"done"}
      settles == ~ticks[t].settled /\ (threw \/ allDone)
  IN /\ ticks' = [ticks EXCEPT
                    ![t].pc = IF allDone THEN "done" ELSE @,
                    ![t].settled = @ \/ settles,
                    ![t].threw = @ \/ threw,
                    ![t].mkt = marketObject]
     /\ isMatching' = IF settles THEN FALSE ELSE isMatching

\* updateMarketPrices returned: the shared market object takes the prices and
\* matchMarket returns.
WalkPersist(w) ==
  /\ walks[w].pc = "w_persist"
  /\ walks' = [walks EXCEPT ![w].pc = "done"]
  /\ TickAfter(w, FALSE, [ticks[w[1]].mkt EXCEPT !.yesPrice = walks[w].yes,
                                                 !.noPrice = walks[w].no])
  /\ UNCHANGED <<storeVars, calls, nextOrderId, now, budget, inputs, sysVars,
                 obs, running, matchInterval, trades, nextTick, monVars>>

\* getMarketOrders rejects (a failed Redis read): matchMarket throws,
\* Promise.all rejects, the callback logs and clears isMatching while the
\* other walk of the tick goes on.
WalkError(w) ==
  /\ walks[w].pc \in {"w_ids", "w_load"}
  /\ budget.errors > 0
  /\ budget' = [budget EXCEPT !.errors = @ - 1]
  /\ walks' = [walks EXCEPT ![w].pc = "done"]
  /\ TickAfter(w, TRUE, ticks[w[1]].mkt)
  /\ UNCHANGED <<storeVars, calls, nextOrderId, now, inputs, sysVars, obs,
                 running, matchInterval, trades, nextTick, monVars>>

\* ------------------------------------------------------------ StacksMonitor
NoPoll == [pc |-> "idle", ids |-> {}, todo |-> <<>>]

MonitorOff ==
  /\ currentBlockHeight = 0
  /\ polls = [k \in PollIds |-> NoPoll]

MonCall(k) == <<"mon", k, "-", "-">>

\* checkExpiredOrders line 120-125: the test on one loaded order.
IsExpiredAt(order, height) ==
  /\ order.status \in {"OPEN", "PARTIALLY_FILLED"}
  /\ order.expiration < height

\* The loaded orders from the first one the test selects.
RECURSIVE FromFirstExpired(_, _)
FromFirstExpired(orders, height) ==
  IF orders = <<>> THEN <<>>
  ELSE IF IsExpiredAt(Head(orders), height) THEN orders
  ELSE FromFirstExpired(Tail(orders), height)

\* The for loop over the loaded orders up to its next await: the expireOrder
\* call of the first order the test selects, or the end of the poll.
ExpiryLoop(k, pf, orders) ==
  LET rest == FromFirstExpired(orders, currentBlockHeight)
  IN IF rest = <<>>
     THEN /\ polls' = [polls EXCEPT ![k] = [pf EXCEPT !.pc = "done",
                                                      !.todo = <<>>]]
          /\ calls' = [calls EXCEPT ![MonCall(k)] = Idle]
     ELSE /\ polls' = [polls EXCEPT ![k] = [pf EXCEPT !.pc = "m_expire",
                                                      !.todo = Tail(rest)]]
          /\ calls' = [Dirty(calls) EXCEPT
                         ![MonCall(k)] = ExpireFrame(Head(rest).orderId)]
        
\* The interval (or start()) calls updateBlockHeight: the fetch is sent.
PollStart(k) ==
  /\ budget.polls > 0
  /\ polls[k].pc = "idle"
  /\ \A j \in PollIds : j < k => polls[j].pc # "idle"
  /\ polls' = [polls EXCEPT ![k].pc = "m_fetch"]
  /\ budget' = [budget EXCEPT !.polls = @ - 1]
  /\ UNCHANGED <<storeVars, calls, nextOrderId, now, inputs, sysVars, obs,
                 engVars, currentBlockHeight>>

\* The fetch answers with some height (0 when the answer carries none).
PollFetched(k) ==
  /\ polls[k].pc = "m_fetch"
  /\ \E newHeight \in 0..MaxHeight :
       IF newHeight > currentBlockHeight
       THEN /\ currentBlockHeight' = newHeight
            /\ polls' = [polls EXCEPT ![k].pc = "m_markets"]
       ELSE /\ currentBlockHeight' = currentBlockHeight
            /\ polls' = [polls EXCEPT ![k].pc = "done"]
  /\ UNCHANGED <<storeVars, calls, nextOrderId, now, budget, inputs, sysVars,
                 obs, engVars>>

\* getAllMarkets, the test on resolved, and sMembers of getMarketOrders sent.
PollMarkets(k) ==
  /\ polls[k].pc = "m_markets"
  /\ polls' = [polls EXCEPT ![k].pc = IF market.resolved THEN "done"
                                      ELSE "m_ids"]
  /\ UNCHANGED <<storeVars, calls, nextOrderId, now, budget, inputs, sysVars,
                 obs, engVars, currentBlockHeight>>

PollIdsRead(k) ==
  /\ polls[k].pc = "m_ids"
  /\ LET orderIds == {id \in OrderIds : Exists(orderHash[id])}
     IN polls' = [polls EXCEPT ![k].ids = orderIds,
                               ![k].pc = IF orderIds = {} THEN "done"
                                         ELSE "m_load"]
  /\ UNCHANGED <<storeVars, calls, nextOrderId, now, budget, inputs, sysVars,
                 obs, engVars, currentBlockHeight>>

\* The batch of getOrder calls answers; the loop runs to its first await.
PollLoad(k) ==
  /\ polls[k].pc = "m_load"
  /\ LET n == Cardinality(polls[k].ids)
     IN \E order \in [1..n -> polls[k].ids] :
          /\ \A i, j \in 1..n : i # j => order[i] # order[j]
          /\ ExpiryLoop(k, polls[k], [i \in 1..n |-> orderHash[order[i]]])
  /\ UNCHANGED <<storeVars, nextOrderId, now, budget, inputs, sysVars, obs,
                 engVars, currentBlockHeight>>

\* expireOrder returned; the loop goes on with the copies loaded before.
PollCollect(k) ==
  /\ polls[k].pc = "m_expire"
  /\ calls[MonCall(k)].pc = "done"
  /\ ExpiryLoop(k, polls[k], polls[k].todo)
  /\ UNCHANGED <<storeVars, nextOrderId, now, budget, inputs, sysVars, obs,
                 engVars, currentBlockHeight>>

\* ------------------------------------------------- settlement and bootstrap
\* The service is constructed without CTF_EXCHANGE_ADDRESS or
\* STACKS_OPERATOR_PRIVATE_KEY: enabled = false, nothing is ever broadcast.
SettlementOff == settlement = [enabled |-> FALSE, broadcasts |-> <<>>]

\* bootstrap() has returned: the services run, the routes are attached and
\* the server listens. `markets` is the Postgres markets table, `marketSet`
\* the Redis set "markets"; the Postgres orders table is `mirror`.
BootDone ==
  [pc |-> "serving", markets |-> {MarketId}, marketSet |-> {MarketId},
   todoMarkets |-> <<>>, rows |-> <<>>, restoredMarkets |-> {},
   restored |-> {}]

Booted == boot = BootDone

\* bootstrap() after persistence.init(): restoreFromPersistence awaits
\* getAllMarkets and Redis holds whatever the last run left in it.
BootBegins(markets, marketSet) ==
  [BootDone EXCEPT !.pc = "get_markets", !.markets = markets,
                   !.marketSet = marketSet]

PersistedOrders == {id \in OrderIds : Exists(mirror[id])}

\* getAllMarkets answers: the loop over the markets, or getAllOrders.
BootGetAllMarkets ==
  /\ boot.pc = "get_markets"
  /\ \E todo \in Arrangements(boot.markets) :
       boot' = [boot EXCEPT !.todoMarkets = todo,
                            !.pc = IF todo = <<>> THEN "get_orders"
                                   ELSE "write_market"]
  /\ UNCHANGED <<storeVars, calls, nextOrderId, now, budget, inputs,
                 settlement, obs, engVars, monVars>>

\* writeMarketToRedis of one market: hSet and sAdd in one multi.
BootWriteMarket ==
  /\ boot.pc = "write_market"
  /\ LET marketId == Head(boot.todoMarkets)
     IN boot' = [boot EXCEPT
                   !.marketSet = @ \cup {marketId},
                   !.restoredMarkets = @ \cup {marketId},
                   !.todoMarkets = Tail(@),
                   !.pc = IF Tail(boot.todoMarkets) = <<>> THEN "get_orders"
                          ELSE "write_market"]
  /\ UNCHANGED <<storeVars, calls, nextOrderId, now, budget, inputs,
                 settlement, obs, engVars, monVars>>

\* getAllOrders answers with the rows of the table, in no particular order.
BootGetAllOrders ==
  /\ boot.pc = "get_orders"
  /\ \E rows \in Arrangements(PersistedOrders) :
       boot' = [boot EXCEPT !.rows = rows,
                            !.pc = IF rows = <<>> THEN "restored"
                                   ELSE "write_order"]
  /\ UNCHANGED <<storeVars, calls, nextOrderId, now, budget, inputs,
                 settlement, obs, engVars, monVars>>

\* writeOrderToRedis of one row: the multi.
BootWriteOrder ==
  /\ boot.pc = "write_order"
  /\ LET id == Head(boot.rows)
     IN /\ orderHash' = writeOrderToRedis_hash(orderHash, id, mirror[id])
        /\ book' = writeOrderToRedis_book(book, id, mirror[id])
  /\ boot' = [boot EXCEPT !.pc = "clear_cache"]
  /\ UNCHANGED <<lock, cache, mirror, market, calls, nextOrderId, now, budget,
                 inputs, settlement, obs, engVars, monVars>>

\* writeOrderToRedis of one row: clearOrderbookCache, then the next row or
\* the return of restoreFromPersistence.
BootClearCache ==
  /\ boot.pc = "clear_cache"
  /\ LET id == Head(boot.rows)
     IN /\ cache' = clearOrderbookCache(cache, BookPosOf(mirror[id]))
        /\ boot' = [boot EXCEPT
                      !.restored = @ \cup {id},
                      !.rows = Tail(@),
                      !.pc = IF Tail(boot.rows) = <<>> THEN "restored"
                             ELSE "write_order"]
  /\ UNCHANGED <<orderHash, book, lock, mirror, market, calls, nextOrderId,
                 now, budget, inputs, settlement, obs, engVars, monVars>>

\* The call restoreFromPersistence awaits rejects: persistenceSafeCall
\* catches and logs, and restoreFromPersistence returns.
BootFail ==
  /\ boot.pc \in {"get_markets", "write_market", "get_orders", "write_order",
                  "clear_cache"}
  /\ budget.errors > 0
  /\ budget' = [budget EXCEPT !.errors = @ - 1]
  /\ boot' = [boot EXCEPT !.pc = "restored"]
  /\ UNCHANGED <<storeVars, calls, nextOrderId, now, inputs, settlement, obs,
                 engVars, monVars>>

\* The rest of bootstrap(): matchingEngine.start(), stacksMonitor.start()
\* with its initial updateBlockHeight, the routes and app.listen.
BootStart ==
  /\ boot.pc = "restored"
  /\ boot' = [boot EXCEPT !.pc = "serving"]
  /\ running' = TRUE
  /\ matchInterval' = TRUE
  /\ polls' = [polls EXCEPT ![1].pc = "m_fetch"]
  /\ UNCHANGED <<storeVars, calls, nextOrderId, now, budget, inputs,
                 settlement, obs, isMatching, ticks, walks, trades, nextTick,
                 currentBlockHeight>>

\* ------------------------------------------------- the order store, alone
\* A request as POST /api/smart-orders (LIMIT) hands it to addOrder: the price
\* is any non-negative integer, the expiration is `expiration || 0`.
Request(side, outcome, price, size, expiration) ==
  [side |-> side, price |-> price, size |-> size, expiration |-> expiration,
   maker |-> MakerAddress, salt |-> "1", signature |-> Unsigned,
   makerPositionId |-> resolvePositionIds(side, outcome).makerPositionId,
   takerPositionId |-> resolvePositionIds(side, outcome).takerPositionId]

\* The store after the requests of `scenario` (pairs of request and
\* createdAt) went through addOrder one after the other.
Loaded(scenario) ==
  LET n == Len(scenario)
      orderAt(id) == fullOrder(id, scenario[id][1], scenario[id][2])
  IN /\ orderHash = [id \in OrderIds |->
                       IF id <= n THEN orderAt(id) ELSE NoOrder]
     /\ book = [k \in BookKeys |->
                  {id \in 1..n : BookKeyOf(orderAt(id)) = k}]
     /\ lock = [id \in OrderIds |-> NoLock]
     /\ cache = [q \in Positions |-> NoCache]
     /\ mirror = [id \in OrderIds |->
                    IF id <= n THEN orderAt(id) ELSE NoOrder]
     /\ market = NewMarket
     /\ calls = [c \in CallIds |-> Idle]
     /\ nextOrderId = n + 1
     /\ now = Len(scenario) + 1
     /\ obs = NothingObserved

\* Requests of the store specification: orders of the YES book.
StoreInputs == {Request(s, "YES", LowPrice, MaxSize, 0) : s \in Sides}

StoreScenarios ==
  { <<<<Request("BUY", "YES", LowPrice, MaxSize, 0), 1>>>> }

NoBudget ==
  [ops |-> 0, expiries |-> 0, stops |-> 0, errors |-> 0, polls |-> 0]

InitStore ==
  /\ \E scenario \in StoreScenarios : Loaded(scenario)
  /\ EngineOff
  /\ MonitorOff
  /\ SettlementOff
  /\ Booted
  /\ budget = [NoBudget EXCEPT !.ops = MaxOps, !.expiries = MaxLockExpiries]
  /\ inputs = StoreInputs

StoreStep(c) ==
  \/ AddOrderWrite(c) \/ AddOrderClear(c) \/ AddOrderPersist(c)
  \/ FillGetOrder(c) \/ FillLock(c) \/ FillRead(c) \/ FillExec(c)
  \/ FillClear(c) \/ FillPersist(c) \/ FillLockGet(c) \/ FillLockDel(c)
  \/ CancelGetOrder(c) \/ CancelExec(c) \/ CancelClear(c)
  \/ CancelPersist(c) \/ CancelGetComp(c)
  \/ ExpireGetOrder(c) \/ ExpireExec(c) \/ ExpireClear(c) \/ ExpirePersist(c)
  \/ LinkGetOrder(c) \/ LinkWrite(c) \/ LinkClear(c) \/ LinkPersist(c)
  \/ GetOrderbookCache(c) \/ GetOrderbookRange(c)
  \/ GetOrderbookAggregate(c) \/ GetOrderbookSetEx(c)

NextStore ==
  \/ \E c \in ApiCalls :
       \/ AddOrderCall(c) \/ FillOrderCall(c) \/ CancelOrderCall(c)
       \/ ExpireOrderCall(c) \/ LinkCall(c) \/ GetOrderbookCall(c)
  \/ \E c \in CallIds : StoreStep(c)
  \/ LockExpire
  \/ CacheExpire

SpecStore == InitStore /\ [][NextStore]_vars

\* ------------------------------------------- the engine over a loaded store
\* index.ts: the store is restored, then matchingEngine.start().
EngineStarted ==
  /\ running = TRUE
  /\ matchInterval = TRUE
  /\ isMatching = FALSE
  /\ ticks = [t \in TickIds |-> NoTick]
  /\ walks = [w \in WalkIds |-> NoWalk]
  /\ trades = <<>>
  /\ nextTick = 1

EngineScenarios ==
  { <<<<Request("BUY", "YES", HighPrice, 1, 0), 1>>,
      <<Request("BUY", "YES", HighPrice, 1, 0), 2>>,
      <<Request("SELL", "YES", LowPrice, MaxSize, 0), 3>>>>,
    <<<<Request("SELL", "YES", LowPrice, MaxSize, 0), 1>>,
      <<Request("BUY", "YES", HighPrice, 1, 0), 2>>>>,
    <<<<Request("BUY", "NO", HighPrice, 1, 0), 1>>,
      <<Request("SELL", "NO", LowPrice, 1, 0), 1>>>> }

\* The engine, and one fillOrder call that does not come from it (another
\* holder of the order's lock).
InitEngine ==
  /\ \E scenario \in EngineScenarios : Loaded(scenario)
  /\ EngineStarted
  /\ MonitorOff
  /\ SettlementOff
  /\ Booted
  /\ budget = [NoBudget EXCEPT !.ops = 1]
  /\ inputs = {}

FillStep(c) ==
  \/ FillGetOrder(c) \/ FillLock(c) \/ FillRead(c) \/ FillExec(c)
  \/ FillClear(c) \/ FillPersist(c) \/ FillLockGet(c) \/ FillLockDel(c)

WalkStep(w) ==
  \/ WalkIdsRead(w) \/ WalkLoad(w) \/ WalkCollect(w) \/ WalkExists(w)
  \/ WalkHSet(w) \/ WalkPersist(w)

NextEngine ==
  \/ TimerSkip
  \/ TimerFire
  \/ \E t \in TickIds : TickMarkets(t)
  \/ \E w \in WalkIds : WalkStep(w)
  \/ \E c \in ApiCalls : FillOrderCall(c)
  \/ \E c \in CallIds : FillStep(c)

SpecEngine == InitEngine /\ [][NextEngine]_vars

\* --------------------------------------- stop(), start() and failing walks
RestartScenarios ==
  { <<<<Request("BUY", "YES", LowPrice, 1, 0), 1>>,
      <<Request("SELL", "YES", HighPrice, 1, 0), 2>>>> }

InitRestart ==
  /\ \E scenario \in RestartScenarios : Loaded(scenario)
  /\ EngineStarted
  /\ MonitorOff
  /\ SettlementOff
  /\ Booted
  /\ budget = [NoBudget EXCEPT !.stops = MaxStops, !.errors = MaxErrors]
  /\ inputs = {}

NextRestart ==
  \/ Start
  \/ Stop
  \/ TimerSkip
  \/ TimerFire
  \/ \E t \in TickIds : TickMarkets(t)
  \/ \E w \in WalkIds :
       \/ WalkIdsRead(w) \/ WalkLoad(w) \/ WalkExists(w) \/ WalkHSet(w)
       \/ WalkPersist(w) \/ WalkError(w)

SpecRestart == InitRestart /\ [][NextRestart]_vars

\* ------------------------------------------ the engine and the price endpoint
PricingScenarios ==
  { <<<<Request("BUY", "YES", OverPrice, MaxSize, 0), 1>>,
      <<Request("SELL", "YES", OverPrice, 1, 0), 2>>>>,
    <<<<Request("BUY", "YES", OddPrice, 1, 0), 1>>,
      <<Request("SELL", "YES", HighPrice, 1, 0), 2>>>>,
    <<<<Request("BUY", "NO", HighPrice, 1, 0), 1>>,
      <<Request("SELL", "NO", LowPrice, MaxSize, 0), 2>>>>,
    <<<<Request("SELL", "YES", 0, 1, 0), 1>>>> }

InitPricing ==
  /\ \E scenario \in PricingScenarios : Loaded(scenario)
  /\ EngineStarted
  /\ MonitorOff
  /\ SettlementOff
  /\ Booted
  /\ budget = [NoBudget EXCEPT !.ops = MaxPricingOps]
  /\ inputs = {}

PriceStep(c) ==
  \/ PriceGetMarket(c) \/ GetOrderbookCache(c) \/ GetOrderbookRange(c)
  \/ GetOrderbookAggregate(c) \/ GetOrderbookSetEx(c)
  \/ PriceExists(c) \/ PriceHSet(c) \/ PricePersist(c)

NextPricing ==
  \/ TimerSkip
  \/ TimerFire
  \/ \E t \in TickIds : TickMarkets(t)
  \/ \E w \in WalkIds : WalkStep(w)
  \/ \E c \in ApiCalls : PriceCall(c)
  \/ \E c \in CallIds : FillStep(c) \/ PriceStep(c)

SpecPricing == InitPricing /\ [][NextPricing]_vars

\* ---------------------------------------------- the monitor over a loaded store
MonitorScenarios ==
  { <<<<Request("BUY", "YES", LowPrice, 1, 0), 1>>,
      <<Request("SELL", "YES", HighPrice, 1, 1), 2>>>>,
    <<<<Request("SELL", "YES", HighPrice, 1, MaxHeight), 1>>,
      <<Request("BUY", "YES", LowPrice, 1, 0), 2>>>> }

MonitorInputs == {Request("BUY", "NO", LowPrice, 1, 0)}

InitMonitor ==
  /\ \E scenario \in MonitorScenarios : Loaded(scenario)
  /\ EngineOff
  /\ MonitorOff
  /\ SettlementOff
  /\ Booted
  /\ budget = [NoBudget EXCEPT !.ops = 1, !.polls = MaxPolls]
  /\ inputs = MonitorInputs

MonitorStep(c) ==
  \/ AddOrderWrite(c) \/ AddOrderClear(c) \/ AddOrderPersist(c)
  \/ ExpireGetOrder(c) \/ ExpireExec(c) \/ ExpireClear(c) \/ ExpirePersist(c)

NextMonitor ==
  \/ \E k \in PollIds :
       \/ PollStart(k) \/ PollFetched(k) \/ PollMarkets(k) \/ PollIdsRead(k)
       \/ PollLoad(k) \/ PollCollect(k)
  \/ \E c \in ApiCalls : AddOrderCall(c)
  \/ \E c \in CallIds : MonitorStep(c)

SpecMonitor == InitMonitor /\ [][NextMonitor]_vars

\* ------------------------------------------- the monitor beside the engine
\* index.ts lines 107-108: both services run over the same store.
ExpiryScenarios ==
  { <<<<Request("SELL", "YES", LowPrice, 1, 1), 1>>,
      <<Request("BUY", "YES", HighPrice, 1, MaxHeight), 2>>>>,
    <<<<Request("BUY", "YES", HighPrice, MaxSize, 1), 1>>,
      <<Request("SELL", "YES", LowPrice, 1, MaxHeight), 2>>>> }

InitExpiry ==
  /\ \E scenario \in ExpiryScenarios : Loaded(scenario)
  /\ EngineStarted
  /\ MonitorOff
  /\ SettlementOff
  /\ Booted
  /\ budget = [NoBudget EXCEPT !.polls = 1]
  /\ inputs = {}

ExpireStep(c) ==
  \/ ExpireGetOrder(c) \/ ExpireExec(c) \/ ExpireClear(c) \/ ExpirePersist(c)

NextExpiry ==
  \/ \E k \in PollIds :
       \/ PollStart(k) \/ PollFetched(k) \/ PollMarkets(k) \/ PollIdsRead(k)
       \/ PollLoad(k) \/ PollCollect(k)
  \/ TimerSkip
  \/ TimerFire
  \/ \E t \in TickIds : TickMarkets(t)
  \/ \E w \in WalkIds : WalkStep(w)
  \/ \E c \in CallIds : FillStep(c) \/ ExpireStep(c)

SpecExpiry == InitExpiry /\ [][NextExpiry]_vars

\* ------------------------------------------ cancel requests beside the engine
\* DELETE of an order while the engine runs.  No order of these scenarios has
\* a complementary order, so cancelOrder never reaches its second getOrder.
CancelScenarios ==
  { <<<<Request("BUY", "YES", HighPrice, MaxSize, 0), 1>>,
      <<Request("SELL", "YES", LowPrice, 1, 0), 2>>,
      <<Request("SELL", "YES", LowPrice, 1, 0), 3>>>> }

InitCancel ==
  /\ \E scenario \in CancelScenarios : Loaded(scenario)
  /\ EngineStarted
  /\ MonitorOff
  /\ SettlementOff
  /\ Booted
  /\ budget = [NoBudget EXCEPT !.ops = 1]
  /\ inputs = {}

CancelStep(c) ==
  \/ CancelGetOrder(c) \/ CancelExec(c) \/ CancelClear(c) \/ CancelPersist(c)

NextCancel ==
  \/ TimerSkip
  \/ TimerFire
  \/ \E t \in TickIds : TickMarkets(t)
  \/ \E w \in WalkIds : WalkStep(w)
  \/ \E c \in ApiCalls : CancelOrderCall(c)
  \/ \E c \in CallIds : FillStep(c) \/ CancelStep(c)

SpecCancel == InitCancel /\ [][NextCancel]_vars

\* ------------------------------------------- cancels, fills and expiries
\* Requests on one resting order that has no complementary order.
InitRecancel ==
  /\ \E scenario \in StoreScenarios : Loaded(scenario)
  /\ EngineOff
  /\ MonitorOff
  /\ SettlementOff
  /\ Booted
  /\ budget = [NoBudget EXCEPT !.ops = MaxOps]
  /\ inputs = {}

NextRecancel ==
  \/ \E c \in ApiCalls :
       \/ CancelOrderCall(c) \/ FillOrderCall(c) \/ ExpireOrderCall(c)
  \/ \E c \in CallIds : CancelStep(c) \/ FillStep(c) \/ ExpireStep(c)

SpecRecancel == InitRecancel /\ [][NextRecancel]_vars

\* ------------------------------------- the engine over complementary orders
ComplementPrice == PRICE_SCALE - LowPrice

\* Two buyers of opposite outcomes, two sellers of opposite outcomes (prices
\* summing to PRICE_SCALE), and a crossing pair of one book.
ComplementScenarios ==
  { <<<<Request("BUY", "YES", LowPrice, 1, 0), 1>>,
      <<Request("BUY", "NO", ComplementPrice, 1, 0), 2>>>>,
    <<<<Request("SELL", "YES", LowPrice, 1, 0), 1>>,
      <<Request("SELL", "NO", ComplementPrice, 1, 0), 2>>>>,
    <<<<Request("BUY", "YES", HighPrice, 1, 0), 1>>,
      <<Request("SELL", "YES", LowPrice, 1, 0), 2>>>> }

InitComplement ==
  /\ \E scenario \in ComplementScenarios : Loaded(scenario)
  /\ EngineStarted
  /\ MonitorOff
  /\ SettlementOff
  /\ Booted
  /\ budget = NoBudget
  /\ inputs = {}

NextComplement ==
  \/ TimerSkip
  \/ TimerFire
  \/ \E t \in TickIds : TickMarkets(t)
  \/ \E w \in WalkIds : WalkStep(w)
  \/ \E c \in CallIds : FillStep(c)

SpecComplement == InitComplement /\ [][NextComplement]_vars

\* ----------------------------------------------------- submitFill, alone
InitSubmit ==
  /\ Loaded(<<>>)
  /\ EngineOff
  /\ MonitorOff
  /\ \E enabled \in BOOLEAN :
       settlement = [enabled |-> enabled, broadcasts |-> <<>>]
  /\ Booted
  /\ budget = [NoBudget EXCEPT !.ops = MaxCalls]
  /\ inputs = {}

NextSubmit ==
  \/ \E c \in ApiCalls : SubmitFillCall(c)
  \/ \E c \in CallIds : SubmitMake(c) \/ SubmitBroadcast(c)

SpecSubmit == InitSubmit /\ [][NextSubmit]_vars

\* ------------------------------- the engine with settlement, and the admin
\* Both environment variables are set: the service is enabled.
SettlementOn == settlement = [enabled |-> TRUE, broadcasts |-> <<>>]

SettleScenarios ==
  { <<<<Request("SELL", "YES", LowPrice, 1, 0), 1>>,
      <<Request("BUY", "YES", HighPrice, 1, 0), 2>>>>,
    <<<<Request("SELL", "YES", LowPrice, MaxSize, 0), 1>>,
      <<Request("BUY", "YES", HighPrice, 1, 0), 2>>,
      <<Request("BUY", "YES", HighPrice, 1, 0), 3>>>> }

InitSettle ==
  /\ \E scenario \in SettleScenarios : Loaded(scenario)
  /\ EngineStarted
  /\ MonitorOff
  /\ SettlementOn
  /\ Booted
  /\ budget = [NoBudget EXCEPT !.ops = MaxCalls]
  /\ inputs = {}

NextSettle ==
  \/ TimerSkip
  \/ TimerFire
  \/ \E t \in TickIds : TickMarkets(t)
  \/ \E w \in WalkIds : WalkStep(w) \/ WalkMake(w) \/ WalkBroadcast(w)
  \/ \E c \in ApiCalls : AdminSettleCall(c)
  \/ \E c \in CallIds :
       \/ FillStep(c) \/ AdminOrders(c) \/ SubmitMake(c) \/ SubmitBroadcast(c)

SpecSettle == InitSettle /\ [][NextSettle]_vars

\* The same book and cancel requests with settlement enabled: fillOrder calls
\* that return true or false, broadcasts that are accepted or rejected.
InitWalk ==
  /\ \E scenario \in CancelScenarios : Loaded(scenario)
  /\ EngineStarted
  /\ MonitorOff
  /\ SettlementOn
  /\ Booted
  /\ budget = [NoBudget EXCEPT !.ops = 1]
  /\ inputs = {}

NextWalk ==
  \/ TimerSkip
  \/ TimerFire
  \/ \E t \in TickIds : TickMarkets(t)
  \/ \E w \in WalkIds : WalkStep(w) \/ WalkMake(w) \/ WalkBroadcast(w)
  \/ \E c \in ApiCalls : CancelOrderCall(c)
  \/ \E c \in CallIds : FillStep(c) \/ CancelStep(c)

SpecWalk == InitWalk /\ [][NextWalk]_vars

\* The smart-orders route on a book of one or two ask levels.
SmartPrices == {-1, 0, LowPrice, PRICE_SCALE}
SmartSalts == {"", "7"}
SmartExpirations == {0, MaxHeight}

\* What a client may have signed: the hash of the request at one of the
\* prices, or at the cost of both levels.
ClientSignatures(body) ==
  {Unsigned} \cup
  ({VerifiedHash(OrderData(body, takerAmount)) :
      takerAmount \in {body.size * p : p \in SmartPrices \ {-1}}
                       \cup {LowPrice + OddPrice}}
     \ {HashThrew})

SmartBodies ==
  UNION {
    {[body EXCEPT !.signature = sig] : sig \in ClientSignatures(body)} :
      body \in [side : Sides, outcome : {"YES"}, orderType : {"LIMIT", "MARKET"},
                price : SmartPrices, size : 0..MaxSize, maxSlippage : {0},
                salt : SmartSalts, expiration : SmartExpirations,
                signature : {Unsigned}]}

SmartScenarios ==
  { <<<<Request("SELL", "YES", LowPrice, MaxSize, 0), 1>>>>,
    <<<<Request("SELL", "YES", LowPrice, 1, 0), 1>>,
      <<Request("SELL", "YES", OddPrice, 1, 0), 2>>>> }

InitSmart ==
  /\ \E scenario \in SmartScenarios : Loaded(scenario)
  /\ EngineOff
  /\ MonitorOff
  /\ SettlementOff
  /\ Booted
  /\ budget = [NoBudget EXCEPT !.ops = 1]
  /\ inputs = SmartBodies

SmartStep(c) ==
  \/ SmartGetMarket(c) \/ SmartPlanMarket(c) \/ SmartVerify(c) \/ SmartAdd(c)
  \/ GetOrderbookCache(c) \/ GetOrderbookRange(c) \/ GetOrderbookAggregate(c)
  \/ GetOrderbookSetEx(c)
  \/ AddOrderWrite(c) \/ AddOrderClear(c) \/ AddOrderPersist(c)

NextSmart ==
  \/ \E c \in ApiCalls : SmartOrderCall(c)
  \/ \E c \in CallIds : SmartStep(c)

SpecSmart == InitSmart /\ [][NextSmart]_vars

\* ---------------------------------------------------------------- the boot
\* A row of the orders table in the given status.
Row(request, id, status) ==
  LET o == fullOrder(id, request, id)
      filled == IF status = "FILLED" THEN o.size
                ELSE IF status = "PARTIALLY_FILLED" THEN 1 ELSE 0
  IN [o EXCEPT !.status = status, !.filledSize = filled,
               !.remainingSize = o.size - filled]

BootRequests ==
  <<Request("BUY", "YES", HighPrice, MaxSize, 1),
    Request("SELL", "YES", LowPrice, MaxSize, 0)>>

BootStatuses == {"OPEN", "PARTIALLY_FILLED", "FILLED", "CANCELLED"}

\* Redis as the last run left it: flushed, or holding the orders in some
\* status of its own, indexed as that status says.
InitBoot ==
  /\ \E rowStatus \in [1..2 -> BootStatuses] :
       mirror = [id \in OrderIds |->
                   IF id <= 2 THEN Row(BootRequests[id], id, rowStatus[id])
                   ELSE NoOrder]
  /\ \/ orderHash = [id \in OrderIds |-> NoOrder]
     \/ \E redisStatus \in [1..2 -> {"OPEN", "FILLED"}] :
          orderHash = [id \in OrderIds |->
                         IF id <= 2
                         THEN Row(BootRequests[id], id, redisStatus[id])
                         ELSE NoOrder]
  /\ book = [k \in BookKeys |->
               {id \in OrderIds : /\ Exists(orderHash[id])
                                  /\ orderRestingInBook(orderHash[id].status)
                                  /\ BookKeyOf(orderHash[id]) = k}]
  /\ lock = [id \in OrderIds |-> NoLock]
  /\ cache = [q \in Positions |-> NoCache]
  /\ market = NewMarket
  /\ calls = [c \in CallIds |-> Idle]
  /\ nextOrderId = 3
  /\ now = 3
  /\ obs = NothingObserved
  /\ EngineOff
  /\ MonitorOff
  /\ SettlementOff
  /\ \E marketSet \in SUBSET {MarketId} :
       boot = BootBegins({MarketId}, marketSet)
  /\ budget = [NoBudget EXCEPT !.ops = 1, !.errors = MaxErrors]
  /\ inputs = {}

NextBoot ==
  \/ BootGetAllMarkets
  \/ BootWriteMarket
  \/ BootGetAllOrders
  \/ BootWriteOrder
  \/ BootClearCache
  \/ BootFail
  \/ BootStart
  \/ TimerFire
  \/ \E k \in PollIds :
       \/ PollFetched(k) \/ PollMarkets(k) \/ PollIdsRead(k) \/ PollLoad(k)
       \/ PollCollect(k)
  \/ \E c \in ApiCalls : CancelOrderCall(c)
  \/ \E c \in CallIds : CancelStep(c) \/ ExpireStep(c)

SpecBoot == InitBoot /\ [][NextBoot]_vars

\* ------------------------------------------------------------- the preview
PreviewBodies ==
  [side : {"BUY"}, outcome : {"YES"}, orderType : {"MARKET"}, price : {0},
   size : 0..1, maxSlippage : {0}, salt : {""}, expiration : {0},
   signature : {Unsigned}]

PreviewScenarios ==
  { <<<<Request("SELL", "YES", LowPrice, 1, 0), 1>>,
      <<Request("SELL", "YES", HighPrice, 1, 0), 2>>>> }

InitPreview ==
  /\ \E scenario \in PreviewScenarios : Loaded(scenario)
  /\ EngineOff
  /\ MonitorOff
  /\ SettlementOff
  /\ Booted
  /\ budget = [NoBudget EXCEPT !.ops = MaxPreviewOps,
                               !.expiries = MaxLockExpiries]
  /\ inputs = PreviewBodies

NextPreview ==
  \/ \E c \in ApiCalls : PreviewCall(c) \/ CancelOrderCall(c)
  \/ \E c \in CallIds :
       \/ SmartPlanMarket(c)
       \/ GetOrderbookCache(c) \/ GetOrderbookRange(c)
       \/ GetOrderbookAggregate(c) \/ GetOrderbookSetEx(c)
       \/ CancelStep(c)
  \/ CacheExpire

SpecPreview == InitPreview /\ [][NextPreview]_vars

\* ------------------------------------------------- fills of linked orders
\* A YES bid and the NO bid a caller may link to it.
LinkedScenarios ==
  { <<<<Request("BUY", "YES", LowPrice, 1, 0), 1>>,
      <<Request("BUY", "NO", ComplementPrice, MaxSize, 0), 2>>>> }

InitLinked ==
  /\ \E scenario \in LinkedScenarios : Loaded(scenario)
  /\ EngineOff
  /\ MonitorOff
  /\ SettlementOff
  /\ Booted
  /\ budget = [NoBudget EXCEPT !.ops = MaxOps]
  /\ inputs = {}

NextLinked ==
  \/ \E c \in ApiCalls : LinkCall(c) \/ FillOrderCall(c)
  \/ \E c \in CallIds :
       \/ LinkGetOrder(c) \/ LinkWrite(c) \/ LinkClear(c) \/ LinkPersist(c)
       \/ FillStep(c)

SpecLinked == InitLinked /\ [][NextLinked]_vars

\* ---------------------------------------------------- planExecution, alone
\* Ask levels as getOrderbook may hand them over: up to three levels of
\* distinct prices, in any order.
PlanLevels == [price : {650000, 660000, 680000}, size : {150, 200, 300},
               orderCount : {1}]

PlanAsks ==
  {asks \in UNION {[1..n -> PlanLevels] : n \in 1..3} :
     \A i, j \in DOMAIN asks : i # j => asks[i].price # asks[j].price}

PlanBodies ==
  [side : {"BUY"}, outcome : {"YES"}, orderType : {"MARKET"}, price : {0},
   size : {400, 500}, maxSlippage : {1, 5}, salt : {""}, expiration : {0},
   signature : {Unsigned}]

InitPlan ==
  /\ Loaded(<<>>)
  /\ EngineOff
  /\ MonitorOff
  /\ SettlementOff
  /\ Booted
  /\ budget = NoBudget
  /\ \E asks \in PlanAsks, body \in PlanBodies :
       inputs = {[orderbook |-> [hit |-> TRUE, bids |-> <<>>, asks |-> asks],
                  body |-> body]}

\* planExecution on the snapshot of the input, for the request of the input.
ApplyPlan ==
  /\ obs = NothingObserved
  /\ \E in \in inputs :
       obs' = [obs EXCEPT !.last =
                 [body |-> in.body,
                  plan |-> planExecution(in.orderbook, in.body.side,
                                         in.body.size, maxSlippageOf(in.body)),
                  store |-> in.orderbook]]
  /\ UNCHANGED <<storeVars, calls, nextOrderId, now, budget, inputs, sysVars,
                 engVars, monVars>>

NextPlan == ApplyPlan

SpecPlan == InitPlan /\ [][NextPlan]_vars

\* planExecution for BUY and SELL, MARKET and LIMIT requests on books of up to
\* two levels a side.
RouterLevels == [price : {LowPrice, HighPrice}, size : 1..MaxSize,
                 orderCount : {1}]

RouterSide ==
  {levels \in UNION {[1..n -> RouterLevels] : n \in 0..2} :
     \A i, j \in DOMAIN levels : i # j => levels[i].price # levels[j].price}

RouterRequests ==
  [side : Sides, orderType : {"MARKET", "LIMIT"}, size : 1..(MaxSize + 1),
   limitPrice : {LowPrice, HighPrice}, maxSlippage : {5, 10}]

InitRouter ==
  /\ Loaded(<<>>)
  /\ EngineOff
  /\ MonitorOff
  /\ SettlementOff
  /\ Booted
  /\ budget = NoBudget
  /\ \E levels \in RouterSide, request \in RouterRequests :
       inputs = {[orderbook |-> [hit |-> TRUE, bids |-> levels,
                                 asks |-> levels],
                  request |-> request]}

ApplyRouter ==
  /\ obs = NothingObserved
  /\ \E in \in inputs :
       obs' = [obs EXCEPT !.seen = TRUE,
                          !.last = [body |-> in.request,
                                    plan |-> planExecutionOf(in.orderbook,
                                                             in.request),
                                    store |-> in.orderbook]]
  /\ UNCHANGED <<storeVars, calls, nextOrderId, now, budget, inputs, sysVars,
                 engVars, monVars>>

NextRouter == ApplyRouter

SpecRouter == InitRouter /\ [][NextRouter]_vars

\* ------------------------------------ the engine under fair scheduling
\* A crossed book, the engine, and one fillOrder call from outside the engine
\* that holds an order's lock for a while.  No order, cancel or expiry
\* arrives.
LiveScenarios ==
  { <<<<Request("BUY", "YES", HighPrice, 1, 0), 1>>,
      <<Request("SELL", "YES", LowPrice, 1, 0), 2>>>>,
    <<<<Request("BUY", "YES", HighPrice, 1, 0), 1>>,
      <<Request("SELL", "YES", LowPrice, 1, 0), 2>>,
      <<Request("SELL", "YES", LowPrice, 1, 0), 3>>>> }

InitLive ==
  /\ \E scenario \in LiveScenarios : Loaded(scenario)
  /\ EngineStarted
  /\ MonitorOff
  /\ SettlementOff
  /\ Booted
  /\ budget = [NoBudget EXCEPT !.ops = 1]
  /\ inputs = {}

\* The interval fires every 100 ms and a lock lives 5000 ms at most, so ticks
\* keep coming after the other holder has let go.  Of the MaxTicks ticks the
\* last one stands for such a tick: it fires once no call from outside is in
\* progress, and no such call starts after it.
TimerFireLive ==
  /\ nextTick = MaxTicks => \A c \in ApiCalls : calls[c].op = "idle"
  /\ TimerFire

OtherFillCall(c) ==
  /\ nextTick <= MaxTicks
  /\ FillOrderCall(c)

\* What the engine and the calls do next: every step but the callback that
\* returns at once because a tick is still running.
StepLive ==
  \/ TimerFireLive
  \/ \E t \in TickIds : TickMarkets(t)
  \/ \E w \in WalkIds : WalkStep(w)
  \/ \E c \in ApiCalls : OtherFillCall(c)
  \/ \E c \in CallIds : FillStep(c)

NextLive ==
  \/ TimerSkip
  \/ StepLive

\* The interval keeps firing, and every await of a tick and of a fillOrder
\* call is answered: while a step is possible, one is taken.
FairLive == WF_vars(StepLive)

SpecLive == InitLive /\ [][NextLive]_vars /\ FairLive

\* ------------------------------------------------------ claims on the store
StoredOrders == {id \in OrderIds : Exists(orderHash[id])}

PastLock == {"fi_read", "fi_exec", "fi_clear", "fi_persist", "fi_lockGet",
             "fi_lockDel"}

\* C1: in every reachable state of the store, whatever the interleaving of
\* addOrder, fillOrder, cancelOrder, expireOrder and linkComplementaryOrders
\* (concurrent fills of one order and lock expiry included), every order has
\* filledSize + remainingSize = size, filledSize >= 0 and remainingSize >= 0.
C1_SizesConserved ==
  \A id \in StoredOrders :
    /\ orderHash[id].filledSize + orderHash[id].remainingSize
         = orderHash[id].size
    /\ orderHash[id].filledSize >= 0
    /\ orderHash[id].remainingSize >= 0

\* Two fills of one order are both past the lock (its TTL ran out under the
\* first) and one of them has already written.
C1_Witness ==
  \E id \in StoredOrders, c \in CallIds, d \in CallIds :
    /\ c # d
    /\ calls[c].op = "fill" /\ calls[c].cur = id /\ calls[c].pc \in PastLock
    /\ calls[d].op = "fill" /\ calls[d].cur = id /\ calls[d].pc \in PastLock
    /\ orderHash[id].filledSize > 0

\* C2: once an order is FILLED, CANCELLED or EXPIRED, no later step changes
\* its status, filledSize or remainingSize.
C2_TerminalAbsorbing ==
  [][\A id \in OrderIds :
       (Exists(orderHash[id]) /\ orderHash[id].status \in TerminalStatus)
         => /\ orderHash'[id].status = orderHash[id].status
            /\ orderHash'[id].filledSize = orderHash[id].filledSize
            /\ orderHash'[id].remainingSize = orderHash[id].remainingSize]_vars

\* C3: between store transactions an order id is a member of its sorted book
\* iff the order's status is OPEN or PARTIALLY_FILLED.
C3_InBookIffResting ==
  \A id \in StoredOrders :
    (id \in book[BookKeyOf(orderHash[id])])
      <=> orderRestingInBook(orderHash[id].status)

\* C4: when a tick of the engine completes (its walks returned, none threw),
\* no resting bid of the store is priced at or above a resting ask of the same
\* book, whatever the fillOrder calls of the tick returned.
C4_NoCrossAfterTick ==
  [][\A t \in TickIds :
       (ticks[t].pc = "walking" /\ ticks'[t].pc = "done" /\ ~ticks'[t].threw)
         => ~StoreCrossed']_vars

\* The order the fill of engine call c passes over: one ahead of it in the
\* walk's sorted list (better price, or same price and smaller createdAt) that
\* still rests in the store with remainingSize > 0.
PassedOver(c) ==
  LET wf == walks[<<c[2], c[3]>>]
      orders == IF c[4] = "BUY" THEN wf.buys ELSE wf.sells
      at == IF c[4] = "BUY" THEN wf.bi ELSE wf.si
  IN \E j \in 1..(at - 1) :
       /\ \/ orders[j].price # orders[at].price
          \/ orders[j].createdAt < orders[at].createdAt
       /\ orderRestingInBook(orderHash[orders[j].orderId].status)
       /\ orderHash[orders[j].orderId].remainingSize > 0

\* C5: within one tick and one book, an order receives a fill only when no
\* order ahead of it (same side; better price, or same price and smaller
\* createdAt) still has remainingSize > 0.
C5_PriceTimePriority ==
  [][\A c \in EngineCalls :
       (calls[c].pc = "fi_exec" /\ calls'[c].pc = "fi_clear"
          /\ calls[c].phase = "main")
         => ~PassedOver(c)]_vars

\* C6: every trade's price is the price of whichever of its two orders has
\* the smaller createdAt.
C6_TradeAtOlderPrice ==
  \A i \in 1..Len(trades) :
    LET makerOrder == orderHash[trades[i].makerOrderId]
        takerOrder == orderHash[trades[i].takerOrderId]
    IN /\ makerOrder.createdAt < takerOrder.createdAt
            => trades[i].price = makerOrder.price
       /\ takerOrder.createdAt < makerOrder.createdAt
            => trades[i].price = takerOrder.price

\* C7: in every reachable state (after creation, after each refresh by the
\* engine, after each call of the price endpoint) the market has
\* yesPrice + noPrice = PRICE_SCALE with both in [0, PRICE_SCALE].
C7_PricesComplementary ==
  /\ market.yesPrice + market.noPrice = PRICE_SCALE
  /\ market.yesPrice \in 0..PRICE_SCALE
  /\ market.noPrice \in 0..PRICE_SCALE

\* After a trade above PRICE_SCALE, the price endpoint has just written a
\* yes price that had to be clamped.
C7_Witness ==
  /\ Len(trades) > 0
  /\ \E c \in ApiCalls :
       /\ calls[c].op = "price"
       /\ calls[c].pc = "pr_persist"
       /\ calls[c].yesPrice = PRICE_SCALE
       /\ market.yesPrice = PRICE_SCALE
       /\ market.noPrice = 0

\* C8: at most one tick is executing at any time, whatever the timer, failing
\* walks, stop() and start() do.
C8_OneTickAtATime == Cardinality({t \in TickIds : InFlight(t)}) <= 1

\* C9: a getOrderbook call that starts after a write to its book has
\* returned, with no write handler in progress while it runs, returns the
\* aggregation of the orders resting in the store, also when another
\* getOrderbook call was in progress while the write happened.
C9_SnapshotCoherent == (obs.seen /\ obs.clean) => obs.coherent

\* C10: the block-height monitor never turns an order whose expiration is 0
\* into EXPIRED, whatever heights it observes.
C10_ZeroNeverExpired ==
  \A id \in StoredOrders :
    orderHash[id].expiration = 0 => orderHash[id].status # "EXPIRED"

\* The orders the trades created by this step reference.
NewlyTraded ==
  UNION {{trades'[i].makerOrderId, trades'[i].takerOrderId} :
           i \in (Len(trades) + 1)..Len(trades')}

\* C11: once the known chain height is h, no trade is created against an
\* order that carries an expiration (not 0) below h: the monitor has expired
\* it and taken it out of its book before a tick can match it.
C11_NoTradeOnExpired ==
  [][\A id \in NewlyTraded :
       orderHash[id].expiration # 0
         => orderHash[id].expiration >= currentBlockHeight]_vars

\* cancelOrder(id) has returned true to a caller other than c: its last step
\* upserted the CANCELLED row, and no other cancel of the order is in flight.
CancelReturned(id, c) ==
  /\ Exists(mirror[id])
  /\ mirror[id].status = "CANCELLED"
  /\ \A d \in CallIds \ {c} : ~(calls[d].op = "cancel" /\ calls[d].cur = id)

\* C12: after cancelOrder returned true on an order with 0 < filledSize <
\* size, the order stays CANCELLED with its filledSize, and no trade created
\* from then on references it, also when a tick was in progress at the cancel.
C12_NoMatchAfterCancel ==
  [][\A id \in StoredOrders :
       (/\ CancelReturned(id, <<>>)
        /\ mirror[id].filledSize > 0
        /\ mirror[id].filledSize < mirror[id].size)
         => /\ id \notin NewlyTraded
            /\ orderHash'[id].status = "CANCELLED"
            /\ orderHash'[id].filledSize = orderHash[id].filledSize]_vars

\* C13: once cancelOrder has returned true on an order, another cancelOrder
\* on the same id returns false at its first read and changes nothing.
C13_CancelIdempotent ==
  [][\A c \in ApiCalls :
       (/\ calls[c].pc = "co_getOrder"
        /\ calls'[c].pc # "co_getOrder"
        /\ CancelReturned(calls[c].id, c))
         => /\ calls'[c] = Finished(c, FALSE)
            /\ UNCHANGED storeVars]_vars

\* Orders 1 and 2 are both `side` orders of opposite outcomes, of one size,
\* whose prices sum to PRICE_SCALE within 10_000.
ComplementaryPair(side) ==
  /\ Exists(orderHash[1]) /\ Exists(orderHash[2])
  /\ orderHash[1].side = side /\ orderHash[2].side = side
  /\ BookPosOf(orderHash[1]) # BookPosOf(orderHash[2])
  /\ orderHash[1].size = orderHash[2].size
  /\ Abs(orderHash[1].price + orderHash[2].price - PRICE_SCALE) <= 10000

TickCompleted == \E t \in TickIds : ticks[t].pc = "done" /\ ~ticks[t].threw

\* The engine created exactly one trade, between orders 1 and 2, of this type.
OneTradeOfType(tradeType) ==
  /\ Len(trades) = 1
  /\ {trades[1].makerOrderId, trades[1].takerOrderId} = {1, 2}
  /\ trades[1].tradeType = tradeType

\* C14: with a resting BUY YES and a resting BUY NO of one size whose prices
\* sum to PRICE_SCALE within 10_000, a completed tick has created exactly one
\* trade between the two, of type MINT, and both orders are FILLED.
C14_MintOnBuyPair ==
  (ComplementaryPair("BUY") /\ TickCompleted)
    => /\ OneTradeOfType("MINT")
       /\ orderHash[1].status = "FILLED"
       /\ orderHash[2].status = "FILLED"

\* C15: with a resting SELL YES and a resting SELL NO of one size whose
\* prices sum to PRICE_SCALE within 10_000, a completed tick has created
\* exactly one trade between the two, of type MERGE.
C15_MergeOnSellPair ==
  (ComplementaryPair("SELL") /\ TickCompleted) => OneTradeOfType("MERGE")

\* The contract function each trade type is to be settled with.
ContractFunctionFor(tradeType) ==
  CASE tradeType = "NORMAL" -> "fill-order"
    [] tradeType = "MINT" -> "fill-order-mint"
    [] tradeType = "MERGE" -> "fill-order-merge"

\* C16: with settlement enabled, submitFill invokes fill-order for a NORMAL
\* trade, fill-order-mint for a MINT trade and fill-order-merge for a MERGE
\* trade.
C16_FunctionByTradeType ==
  \A i \in 1..Len(settlement.broadcasts) :
    settlement.broadcasts[i].functionName
      = ContractFunctionFor(settlement.broadcasts[i].tradeType)

\* The broadcasts of a trade that the node accepted.
Accepted(tradeId) ==
  {i \in 1..Len(settlement.broadcasts) :
     /\ settlement.broadcasts[i].tradeId = tradeId
     /\ settlement.broadcasts[i].ok}

\* C17: over all ticks and admin force-settle requests, a trade with a
\* recorded txHash is not submitted again: every trade is broadcast
\* successfully at most once.
C17_BroadcastAtMostOnce ==
  \A tradeId \in 1..Len(trades) : Cardinality(Accepted(tradeId)) <= 1

\* The orders that came in through the smart-orders route: they carry the
\* signature of their request.
SmartStored == {id \in StoredOrders : orderHash[id].signature # Unsigned}

\* C18: a LIMIT request with price 0 or PRICE_SCALE adds no order: every
\* order the LIMIT branch stores has 0 < price < PRICE_SCALE.
C18_LimitPriceInBounds ==
  [][\A c \in ApiCalls :
       /\ calls[c].op = "smart"
       /\ calls[c].body.orderType = "LIMIT"
       /\ calls[c].pc = "ao_write"
       /\ orderHash'[calls[c].id] # orderHash[calls[c].id]
       => /\ 0 < orderHash'[calls[c].id].price
          /\ orderHash'[calls[c].id].price < PRICE_SCALE]_vars

\* The hash recomputed from the stored fields of an order.
StoredHash(o) ==
  computeOrderHash(o.maker, o.maker, o.makerPositionId, o.takerPositionId,
                   o.size, o.price * o.size, o.salt, o.expiration)

\* C19: for every order stored through the smart-orders route, the hash
\* recomputed from its stored fields is the hash its stored signature was
\* verified against when the request was accepted.
C19_HashRoundTrip ==
  \A id \in SmartStored :
    verifyOrderSignature(StoredHash(orderHash[id]), orderHash[id].signature)

\* The timer fires for the first time since the process started.
FirstTickBegins == nextTick = 1 /\ nextTick' = 2

\* Every market restoreFromPersistence wrote is in the set "markets", and
\* every order it wrote is in its sorted book exactly when it rests.
RestoredIndexed ==
  /\ boot.restoredMarkets \subseteq boot.marketSet
  /\ \A id \in boot.restored :
       id \in book[BookKeyOf(orderHash[id])]
         <=> orderHash[id].status \in {"OPEN", "PARTIALLY_FILLED"}

\* C20: the first matching tick begins only after restoreFromPersistence
\* has returned, and when it begins every restored market is in the market
\* set and every restored order is in its sorted book if and only if its
\* status is OPEN or PARTIALLY_FILLED.
C20_RestoreBeforeFirstTick ==
  [][FirstTickBegins => boot.pc = "serving" /\ RestoredIndexed]_vars

\* The first tick has begun on a store whose market was restored, with a
\* restored order that rests and is in its book and a restored order that is
\* FILLED and is not.
C20_Witness ==
  /\ nextTick = 2
  /\ boot.restoredMarkets = {MarketId}
  /\ \E id \in boot.restored :
       /\ orderHash[id].status = "PARTIALLY_FILLED"
       /\ id \in book[BookKeyOf(orderHash[id])]
  /\ \E id \in boot.restored :
       /\ orderHash[id].status = "FILLED"
       /\ id \notin book[BookKeyOf(orderHash[id])]

\* A preview that ran with no write handler in flight returns in this step.
PreviewReturns(c) ==
  /\ calls[c].op = "plan"
  /\ calls[c].clean
  /\ calls'[c].op = "idle"

\* C21: two planExecution calls with the same request and no order or market
\* write between them return the same plan, and no step of planExecution
\* changes an order record, a sorted book or the market record.
C21_PlanPure ==
  [][\A c \in ApiCalls :
       /\ (calls[c].op = "plan" /\ calls'[c] # calls[c]
            => UNCHANGED <<orderHash, book, market>>)
       /\ (/\ PreviewReturns(c)
           /\ obs.last.body = calls[c].body
           /\ obs.last.store = <<orderHash, book, market>>
           => obs'.last.plan = obs.last.plan)]_vars

\* The book of the example and its request at a given maxSlippage.
ExampleAsks ==
  <<[price |-> 650000, size |-> 200, orderCount |-> 1],
    [price |-> 660000, size |-> 150, orderCount |-> 1],
    [price |-> 680000, size |-> 300, orderCount |-> 1]>>

ExamplePlanned(maxSlippage) ==
  /\ obs.last.body \in PlanBodies
  /\ obs.last.body.size = 500
  /\ obs.last.body.maxSlippage = maxSlippage
  /\ obs.last.store.asks = ExampleAsks

ExampleLevels ==
  <<[price |-> 650000, size |-> 200], [price |-> 660000, size |-> 150],
    [price |-> 680000, size |-> 150]>>

\* averagePrice = totalCost / actualSize is `price`.
AveragePriceIs(plan, price) ==
  plan.actualSize > 0 /\ plan.totalCost = price * plan.actualSize

ExamplePlanAt(averagePrice) ==
  /\ ExamplePlanned(5)
     => /\ obs.last.plan.levels = ExampleLevels
        /\ AveragePriceIs(obs.last.plan, averagePrice)
        /\ obs.last.plan.feasible
  /\ ExamplePlanned(1) => ~obs.last.plan.feasible

\* C22, as stated: on asks (650000 x 200), (660000 x 150), (680000 x 300) a
\* MARKET BUY of 500 with maxSlippage 5 is planned as (650000, 200),
\* (660000, 150), (680000, 150) at averagePrice 664000, feasible; with
\* maxSlippage 1 it is infeasible.
C22_ExamplePlan_Stated == ExamplePlanAt(664000)

\* C22, amended: the same levels and verdicts, at averagePrice 662000
\* (331000000 / 500).
C22_ExamplePlan == ExamplePlanAt(662000)

C22_Witness == ExamplePlanned(5) /\ obs.last.plan.feasible

\* The handler invocation c takes this step.
Steps(c) == calls'[c] # calls[c] /\ calls[c].op # "idle"

\* C23: every write to an order record by fillOrder, cancelOrder,
\* expireOrder or linkComplementaryOrders is made while the writer holds the
\* lock of that order.
C23_WritesUnderLock ==
  [][\A c \in CallIds, id \in OrderIds :
       /\ Steps(c)
       /\ calls[c].op \in {"fill", "cancel", "expire", "link"}
       /\ orderHash'[id] # orderHash[id]
       => lock[id] = c]_vars

\* The fills that hold or held the lock of id and have not written yet.
FillsBeforeWrite(id) ==
  {c \in CallIds : /\ calls[c].op = "fill"
                    /\ calls[c].cur = id
                    /\ calls[c].pc \in {"fi_read", "fi_exec"}}

\* A fill deletes the lock of id in this step.
FillDeletesLock(c, id) ==
  /\ Steps(c)
  /\ calls[c].op = "fill"
  /\ lock[id] # NoLock
  /\ lock'[id] = NoLock

\* C24: under concurrent fills of one order and expiries of its lock, a fill
\* only ever deletes the lock it acquired itself, and at most one fill is
\* between its lock acquisition and its order write.
C24_LockExclusive ==
  [][/\ \A c \in CallIds, id \in OrderIds :
          FillDeletesLock(c, id) => lock[id] = c
     /\ \A id \in OrderIds : Cardinality(FillsBeforeWrite(id)) <= 1]_vars

\* fillOrder's fill of its target returned false: the target was missing,
\* FILLED, CANCELLED or EXPIRED, the size was over remainingSize, or the lock
\* was held by another fill.
TargetRefused(c) ==
  /\ calls[c].op = "fill"
  /\ calls[c].phase = "comp"
  /\ ~calls[c].res

\* C25: a fillOrder whose target is missing, terminal or locked by another
\* fill, or whose size is not in 1..remainingSize, returns false and changes
\* no order record, of the target or of any other order.
C25_RefusedFillWritesNothing ==
  [][\A c \in CallIds :
       Steps(c) /\ TargetRefused(c) => orderHash' = orderHash]_vars

\* The walk resumes after Promise.all of its two fillOrder calls.
FillsReturned(w) ==
  /\ walks[w].pc = "w_fills"
  /\ calls[EngCall(w, "BUY")].pc = "done"
  /\ calls[EngCall(w, "SELL")].pc = "done"
  /\ walks'[w] # walks[w]

\* One of the two fillOrder calls of the walk's pair returned false.
FillRefused(w) ==
  \/ ~calls[EngCall(w, "BUY")].ret
  \/ ~calls[EngCall(w, "SELL")].ret

\* C26: when one of the two fillOrder calls of a matched pair returned false,
\* the walk of that book creates no further trade as it resumes.
C26_NoTradeAfterRefusedFill ==
  [][\A w \in WalkIds :
       FillsReturned(w) /\ FillRefused(w) => trades' = trades]_vars

\* The sizes of the trade-log entries that reference the order as
\* makerOrderId or takerOrderId, added up.
RECURSIVE TradedSizeIn(_, _)
TradedSizeIn(log, id) ==
  IF log = <<>>
  THEN 0
  ELSE (IF id \in {Head(log).makerOrderId, Head(log).takerOrderId}
        THEN Head(log).size
        ELSE 0) + TradedSizeIn(Tail(log), id)

\* A tick has completed and neither a tick nor a store call is in progress.
AfterCompletedTick ==
  /\ TickCompleted
  /\ \A t \in TickIds : ~InFlight(t)
  /\ \A c \in CallIds : calls[c].op = "idle"

\* C27: after a completed tick the trade-log entries that reference an order
\* add up to the filledSize of its record in the store.
C27_TradeLogMatchesFills ==
  AfterCompletedTick =>
    \A id \in OrderIds :
      Exists(orderHash[id]) =>
        TradedSizeIn(trades, id) = orderHash[id].filledSize

\* A fillOrder call writes the order's record: the multi of lines 243-262,
\* after which the call returns true.
FillWrites(c, id) ==
  /\ Steps(c)
  /\ calls[c].op = "fill"
  /\ calls[c].cur = id
  /\ orderHash'[id] # orderHash[id]

\* C28: under concurrent fills of one order and expiries of its lock, the
\* write of every fill that returns true adds its fill size to the filledSize
\* stored at that moment, so that no successful fill is lost or counted twice.
C28_NoFillLost ==
  [][\A c \in CallIds, id \in OrderIds :
       FillWrites(c, id) =>
         orderHash'[id].filledSize = orderHash[id].filledSize + calls[c].n]_vars

\* getTrade (lines 348-350): the entry of the trades map, read without an
\* await; trade ids are the positions of the log.
NoTrade == [size |-> 0]

getTrade(tradeId) ==
  IF tradeId \in DOMAIN trades THEN trades[tradeId] ELSE NoTrade

\* getTrades (lines 335-346) of the one market, below its limit of 50: the
\* ids of the entries it returns.
getTrades == {tradeId \in DOMAIN trades : getTrade(tradeId) # NoTrade}

\* One of the two fillOrder calls of the walk's current pair has not returned.
FillsPending(w) ==
  /\ walks[w].pc = "w_fills"
  /\ \E side \in Sides : calls[EngCall(w, side)].pc # "done"

\* C29: while a fillOrder call of a trade's pair has not completed, neither
\* getTrade nor getTrades returns the trade.
C29_TradeHiddenUntilFilled ==
  \A w \in WalkIds :
    FillsPending(w) =>
      /\ getTrade(walks[w].tradeId) = NoTrade
      /\ walks[w].tradeId \notin getTrades

\* The walk's broadcastTransaction was rejected by the node: submitFill throws
\* (stacksSettlement.ts 203-205) into the catch of matchMarket.
BroadcastRejected(w) ==
  /\ walks[w].pc = "w_broadcast"
  /\ walks'[w] # walks[w]
  /\ ~settlement'.broadcasts[Len(settlement'.broadcasts)].ok

\* The pair at the walk's pointers crosses.
NextPairCrosses(wf) ==
  /\ wf.bi <= Len(wf.buys)
  /\ wf.si <= Len(wf.sells)
  /\ PricesCross(wf.buys[wf.bi], wf.sells[wf.si])

\* The walk goes round its loop: it logs the trade of the next crossing pair
\* and starts its fills, or leaves the loop when no pair crosses.
WalkContinues(w) ==
  IF NextPairCrosses(walks[w])
  THEN /\ walks'[w].pc = "w_fills"
       /\ Len(trades') = Len(trades) + 1
       /\ trades'[Len(trades')].takerOrderId =
            walks[w].buys[walks[w].bi].orderId
       /\ trades'[Len(trades')].makerOrderId =
            walks[w].sells[walks[w].si].orderId
  ELSE /\ walks'[w].pc = "w_exists"
       /\ trades' = trades

Trades(w) ==
  /\ Len(trades') = Len(trades) + 1
  /\ walks'[w].pc = "w_fills"
  /\ walks'[w].tradeId = Len(trades')
  /\ walks'[w] # walks[w]

CounterpartyLevels(orderbook, side) ==
  IF side = "BUY" THEN orderbook.asks ELSE orderbook.bids

\* The plan's slippage is at most maxSlippage:
\* |totalCost / actualSize - bestPrice| / bestPrice * 100 <= maxSlippage.
SlippageWithin(plan, maxSlippage) ==
  plan.bestPrice > 0 /\ plan.actualSize > 0 =>
    Abs(plan.totalCost - plan.bestPrice * plan.actualSize) * 100
      <= maxSlippage * plan.bestPrice * plan.actualSize

\* C32: a feasible plan covers the requested size and, for a MARKET request,
\* keeps its slippage within maxSlippage; in every plan a level takes at most
\* the size of the book's level at its price, cumulativeSize is the running
\* sum of the level sizes, totalCost is the sum of price x size, and a LIMIT
\* plan has no level beyond limitPrice.
C32_PlanWithinBook ==
  obs.seen =>
    LET request == obs.last.body
        plan == obs.last.plan
        walked == CounterpartyLevels(obs.last.store, request.side)
    IN /\ plan.feasible =>
            /\ SumSize(plan.levels) >= request.size
            /\ request.orderType = "MARKET" =>
                 SlippageWithin(plan, request.maxSlippage)
       /\ \A i \in DOMAIN plan.levels :
            /\ \E j \in DOMAIN walked :
                 /\ walked[j].price = plan.levels[i].price
                 /\ plan.levels[i].size <= walked[j].size
            /\ plan.levels[i].cumulativeSize =
                 SumSize(SubSeq(plan.levels, 1, i))
            /\ request.orderType = "LIMIT" =>
                 IF request.side = "BUY"
                 THEN plan.levels[i].price <= request.limitPrice
                 ELSE plan.levels[i].price >= request.limitPrice
       /\ plan.totalCost = SumCost(plan.levels)

\* A feasible plan of two levels, the second one taken in part.
C32_Witness ==
  /\ obs.seen
  /\ obs.last.plan.feasible
  /\ Len(obs.last.plan.levels) = 2
  /\ \E j \in DOMAIN obs.last.store.asks :
       /\ obs.last.store.asks[j].price = obs.last.plan.levels[2].price
       /\ obs.last.plan.levels[2].size < obs.last.store.asks[j].size

\* No order operation is in progress.
NoCallInProgress == \A c \in CallIds : calls[c].op = "idle"

\* C33: whenever no order operation is in progress, the mirror row of every
\* order has the status, filledSize and remainingSize of its record in the
\* hot store.
C33_MirrorInLockStep ==
  NoCallInProgress =>
    \A id \in OrderIds :
      Exists(orderHash[id]) =>
        /\ Exists(mirror[id])
        /\ mirror[id].status = orderHash[id].status
        /\ mirror[id].filledSize = orderHash[id].filledSize
        /\ mirror[id].remainingSize = orderHash[id].remainingSize

\* The read requests of the model: GET of the orderbook, GET of the price and
\* the plan preview.
ReadOps == {"book", "price", "plan"}

\* C34: no step of a read request changes the market record; yesPrice and
\* noPrice are written by the walks of a tick only.
C34_ReadsLeaveMarket ==
  [][\A c \in ApiCalls :
       Steps(c) /\ calls[c].op \in ReadOps => market' = market]_vars

\* The walk's updateMarketPrices writes the market record.
WalkWritesPrices(w) ==
  /\ walks[w].pc = "w_hset"
  /\ walks'[w] # walks[w]

\* C35: a walk in which no trade occurred leaves yesPrice and noPrice as they
\* are; a walk with a trade writes its last trade price, normalized to the
\* YES side, as yesPrice and the complement as noPrice.
C35_PricesFromLastTrade ==
  [][\A w \in WalkIds :
       WalkWritesPrices(w) =>
         IF walks[w].last = Undefined
         THEN /\ market'.yesPrice = market.yesPrice
              /\ market'.noPrice = market.noPrice
         ELSE /\ market'.yesPrice = effectiveLastTrade(w[2], walks[w].last)
              /\ market'.noPrice =
                   PRICE_SCALE - effectiveLastTrade(w[2], walks[w].last)]_vars

\* Both walks of the tick have derived their prices and are about to write
\* them to the market record, in either order.
BothAboutToWrite(t) ==
  \A positionId \in Positions : walks[<<t, positionId>>].pc = "w_hset"

\* C36: the prices stored after a tick do not depend on the order in which its
\* two walks complete: when both walks are about to write the market record,
\* they write the same yesPrice and noPrice.
C36_WalkOrderIrrelevant ==
  \A t \in TickIds :
    BothAboutToWrite(t) =>
      /\ walks[<<t, "YES">>].yes = walks[<<t, "NO">>].yes
      /\ walks[<<t, "YES">>].no = walks[<<t, "NO">>].no

\* num / 2 rounded to the nearest whole number, a half going to the even one.
RoundHalfToEven(num) ==
  IF num % 2 = 0 \/ (num \div 2) % 2 = 0 THEN num \div 2
  ELSE num \div 2 + 1

\* The walk has derived the prices it writes from its best bid and best ask.
HasDerived(w) == walks[w].pc \in {"w_exists", "w_hset", "w_persist"}

\* C37: for a best bid and a best ask in 0..PRICE_SCALE that are at most
\* MID_PRICE_SPREAD_THRESHOLD apart, deriveYesNoPrices returns their mid
\* rounded half-to-even as yesPrice and PRICE_SCALE - yesPrice as noPrice.
C37_MidRoundsHalfToEven ==
  \A w \in WalkIds :
    LET bestBid == FirstOpenPrice(walks[w].buys)
        bestAsk == FirstOpenPrice(walks[w].sells)
    IN /\ HasDerived(w)
       /\ bestBid # Undefined
       /\ bestAsk # Undefined
       /\ {bestBid, bestAsk} \subseteq 0..PRICE_SCALE
       /\ Abs(bestAsk - bestBid) <= MID_PRICE_SPREAD_THRESHOLD
       => /\ walks[w].yes = RoundHalfToEven(bestBid + bestAsk)
          /\ walks[w].no = PRICE_SCALE - walks[w].yes

\* An engine fill of the order is at its SET NX while another holds the lock.
FacesHeldLock(id) ==
  \E c \in EngineCalls :
    /\ calls[c].pc = "fi_lock"
    /\ calls[c].cur = id
    /\ lock[id] # NoLock

\* An engine fill of the order has acquired its lock.
EngineHoldsLock(id) == lock[id] \in EngineCalls

\* C38: with the engine running, ticks and lock releases scheduled fairly and
\* no order, cancel or expiry arriving, a crossed book is eventually not
\* crossed, and an order whose fill by the engine met a held lock is filled
\* by the engine again later, unless it has stopped resting by then.
C38_CrossEventuallyCleared ==
  /\ StoreCrossed ~> ~StoreCrossed
  /\ \A id \in OrderIds :
       FacesHeldLock(id) ~>
         (EngineHoldsLock(id) \/ ~orderRestingInBook(orderHash[id].status))

\* C39: between the return of stop() and the next start() the engine fills no
\* order, creates no trade, updates no price and submits no settlement.
C39_QuietAfterStop ==
  [][~running /\ ~running' =>
       /\ orderHash' = orderHash
       /\ trades' = trades
       /\ market' = market
       /\ settlement' = settlement]_vars

\* C40: every pass through the loop of a walk advances the pointer of an
\* order whose local remainingSize reached 0, whatever the fillOrder calls
\* and the settlement returned, and a walk of b bids and a asks makes at most
\* a + b passes.
C40_WalkTerminates ==
  [][\A w \in WalkIds :
       /\ FillsReturned(w) =>
            LET wf == walks[w]
                buyOrder == updateOrderState(wf.buys[wf.bi], wf.trade)
                sellOrder == updateOrderState(wf.sells[wf.si], wf.trade)
            IN /\ walks'[w].bi + walks'[w].si > wf.bi + wf.si
               /\ walks'[w].bi > wf.bi => buyOrder.remainingSize = 0
               /\ walks'[w].si > wf.si => sellOrder.remainingSize = 0
       /\ walks'[w].iterations
            <= Len(walks'[w].buys) + Len(walks'[w].sells)]_vars

\* A walk is in its second pass after a fillOrder call of its first pass
\* returned false and the broadcast of its first trade was rejected.
C40_Witness ==
  \E w \in WalkIds :
    /\ walks[w].iterations = 2
    /\ walks[w].pc = "w_fills"
    /\ Len(settlement.broadcasts) > 0
    /\ ~settlement.broadcasts[1].ok
    /\ \E id \in OrderIds :
         /\ orderHash[id].status = "CANCELLED"
         /\ TradedSizeIn(trades, id) > orderHash[id].filledSize

====
